---- MODULE Spec2Model ----
(***************************************************************************)
(* State-machine model of tap-salesforce's stream sync orchestrator:       *)
(* main_impl / build_state / do_sync (tap_salesforce/__init__.py) and      *)
(* get_stream_version / resume_syncing_bulk_query / sync_stream /          *)
(* sync_records (tap_salesforce/sync.py).                                  *)
(*                                                                         *)
(* Encoding of Python values:                                              *)
(*   - None is Null (-1); a key missing from a dict is Absent (-2).        *)
(*   - a timestamp string is a natural number 2*t + f, where t is the      *)
(*     instant and f = 0 when the string is in the format singer's         *)
(*     strftime produces and f = 1 for any other rendering of the same     *)
(*     instant (config dates, raw source values).                          *)
(*   - a stream version is the wall-clock reading at which it was minted.  *)
(*   - tap_stream_id is the stream's position in the catalog.              *)
(*   - BatchIDs is a sequence of batch ids; AbsentIDs / NullIDs stand for  *)
(*     a missing key and for None.                                         *)
(***************************************************************************)
EXTENDS Integers, Sequences, FiniteSets, TLC

\* ------------------------------------------------------------------ bounds
\* Largest wall-clock reading of the model (the clock starts at 1).
MaxClock == 2
\* Most records one batch or one query yields.
MaxRecs == 2
\* Number of process runs (a run ends by finishing or by being interrupted).
MaxRuns == 2
\* Most calls of _make_request one run makes (the login included).
MaxCalls == 3
\* Most timers one run creates.
MaxTimers == 4

\* ------------------------------------------------------------ Python values
Null == -1
Absent == -2
AbsentIDs == <<Absent>>
NullIDs == <<Null>>

\* Python truthiness of a scalar slot (None and a missing key are falsy).
Truthy(x) == x # Null /\ x # Absent
\* Python truthiness of a BatchIDs slot (None, missing and [] are falsy).
TruthyIDs(b) == b # NullIDs /\ b # AbsentIDs /\ b # <<>>
\* dict.get(key): a missing key reads as None.
Get(x) == IF x = Absent THEN Null ELSE x
GetIDs(b) == IF b = AbsentIDs THEN NullIDs ELSE b
\* Python's "a or b" on scalar slots.
Or(a, b) == IF Truthy(a) THEN a ELSE b

\* singer_utils.strptime_with_tz: the instant a timestamp string denotes.
strptime_with_tz(s) == s \div 2
\* singer_utils.strftime: the canonical rendering of an instant.
strftime(t) == 2 * t
\* A timestamp string in a non-canonical rendering (config, raw source rows).
RawTs(t) == 2 * t + 1
\* singer's Transformer on a date-time field re-renders it canonically.
transform_datetime(s) == strftime(strptime_with_tz(s))

\* list.remove(x): drop the first occurrence of x.
RECURSIVE ListRemove(_, _)
ListRemove(s, x) ==
    IF s = <<>> THEN <<>>
    ELSE IF Head(s) = x THEN Tail(s)
    ELSE <<Head(s)>> \o ListRemove(Tail(s), x)

\* The readings a wall-clock read can return when the last reading was c.
ClockReads(c) == IF c < MaxClock THEN {c, c + 1} ELSE {c}

VARIABLES
    catalog,            \* catalog['streams']: sequence of stream entries
    default_start_date, \* sf.default_start_date (config start_date)
    persisted,          \* the state of the last State message written
    state,              \* the in-memory state dict of the running process
    pc,                 \* control position of the main thread
    idx,                \* position of do_sync's loop in catalog['streams']
    starting_stream,    \* do_sync's local starting_stream
    stream_version,     \* do_sync's local stream_version
    sv,                 \* stream_version local of resume / sync_records
    start_time,         \* start_time local of resume / sync_records
    current_bookmark,   \* current_bookmark / chunked_bookmark (an instant)
    batch_queue,        \* batches of "for batch_id in batch_ids[:]" still to do
    cur_batch,          \* batch_id being drained (0: none)
    nrecs,              \* records yielded so far by the current iterator
    pk_chunking,        \* sf.pk_chunking
    clock,              \* last wall-clock reading
    run,                \* number of the current process run
    out,                \* messages written by this run (State messages apart)
    hist,               \* observation record for the properties below
    quota_percent_total,     \* sf.quota_percent_total
    quota_percent_per_run,   \* sf.quota_percent_per_run
    rest_requests_attempted, \* sf.rest_requests_attempted
    rpc,                \* control position of the request layer
    call,               \* the remote call in progress, as _make_request sees it
    exc,                \* the exception that is propagating ("none": none)
    exit_code,          \* exit status of the process (Null: running)
    rhist,              \* observation record of the request layer
    mpc,                \* main_impl's position around the token-refresh timer
    main_exit,          \* how main_impl leaves its try block
    timers,             \* the threading.Timer objects login has created
    tlogin,             \* per timer: the login its thread is in
    mreq,               \* the main thread's _make_request between its steps
    login_timer,        \* sf.login_timer: a position in timers (0: None)
    access_token,       \* sf.access_token: the login that set it (0: none)
    fn,                 \* the function a single call is made of ("none": none)
    arg,                \* the arguments of that call
    ret                 \* <<>> before the call, <<result>> after it

syncvars == <<catalog, default_start_date, persisted, state, pc, idx,
              starting_stream, stream_version, sv, start_time, current_bookmark,
              batch_queue, cur_batch, nrecs, pk_chunking, clock, run, out, hist>>
reqvars == <<quota_percent_total, quota_percent_per_run,
             rest_requests_attempted, rpc, call, exc, exit_code, rhist>>
timervars == <<mpc, main_exit, timers, tlogin, mreq, login_timer, access_token>>
callvars == <<fn, arg, ret>>
auxvars == <<timervars, callvars>>
vars == <<syncvars, reqvars, auxvars>>

\* ------------------------------------------------------------------ state
\* A stream's bookmark dict.  entry = FALSE: the stream has no entry under
\* state['bookmarks'].  rk is the value stored under the stream's
\* replication key (the key None for a stream that has no replication key).
NoBookmark ==
    [entry |-> FALSE, version |-> Absent, rk |-> Absent, JobID |-> Absent,
     BatchIDs |-> AbsentIDs, JobHighestBookmarkSeen |-> Absent,
     other |-> Absent]      \* a key the tap does not interpret

Streams == 1..Len(catalog)

\* metadata.to_map(catalog_entry['metadata']).get((), {}).get('replication-key')
replication_key(s) == catalog[s].key
replication_method(s) == catalog[s].method
\* stream_is_selected
stream_is_selected(s) == catalog[s].selected

\* singer.get_bookmark(state, tap_stream_id, key)
get_bookmark(st, s, k) ==
    CASE k = "version" -> Get(st.bookmarks[s].version)
      [] k = "rk" -> Get(st.bookmarks[s].rk)
      [] k = "JobID" -> Get(st.bookmarks[s].JobID)
      [] k = "JobHighestBookmarkSeen" -> Get(st.bookmarks[s].JobHighestBookmarkSeen)
get_bookmark_ids(st, s) == GetIDs(st.bookmarks[s].BatchIDs)

\* singer.write_bookmark(state, tap_stream_id, key, val)
write_bookmark(st, s, k, val) ==
    [st EXCEPT !.bookmarks[s] =
        CASE k = "version" -> [@ EXCEPT !.entry = TRUE, !.version = val]
          [] k = "rk" -> [@ EXCEPT !.entry = TRUE, !.rk = val]
          [] k = "JobID" -> [@ EXCEPT !.entry = TRUE, !.JobID = val]
          [] k = "JobHighestBookmarkSeen" ->
                [@ EXCEPT !.entry = TRUE, !.JobHighestBookmarkSeen = val]]
write_bookmark_ids(st, s, val) ==
    [st EXCEPT !.bookmarks[s] = [@ EXCEPT !.entry = TRUE, !.BatchIDs = val]]

\* The state dict build_state starts from: {}.
EmptyState(n) ==
    [current_stream |-> Absent, other |-> Absent,
     bookmarks |-> [s \in 1..n |-> NoBookmark]]

\* Sf.get_start_date: the stream's replication-key bookmark, else the
\* configured start date.
get_start_date(st, s) == Or(get_bookmark(st, s, "rk"), default_start_date)

\* get_stream_version, with now the wall-clock reading int(time.time()*1000).
get_stream_version_minted(s, st, now) == now
get_stream_version_nokey(s, st, now) ==
    IF get_bookmark(st, s, "version") = Null THEN now
    ELSE get_bookmark(st, s, "version")
get_stream_version(s, st, now) ==
    LET stream_version_ ==
            IF get_bookmark(st, s, "version") = Null THEN now
            ELSE get_bookmark(st, s, "version")
    IN  IF replication_key(s) THEN stream_version_ ELSE now

\* build_state: batches = singer.get_bookmark(raw_state, tap_stream_id,
\* 'BatchIDs'), written next to the JobID whatever it is.
batches_if_listed(raw, s) ==
    IF get_bookmark_ids(raw, s) = NullIDs THEN AbsentIDs ELSE get_bookmark_ids(raw, s)
batches(raw, s) == get_bookmark_ids(raw, s)

\* build_state's loop body for one catalog entry.
build_state_entry(st, raw, s) ==
    LET version == get_bookmark(raw, s, "version")
        st1 ==
            IF Truthy(get_bookmark(raw, s, "JobID"))
            THEN write_bookmark(
                     write_bookmark_ids(
                         write_bookmark(st, s, "JobID", get_bookmark(raw, s, "JobID")),
                         s, batches(raw, s)),
                     s, "JobHighestBookmarkSeen",
                     get_bookmark(raw, s, "JobHighestBookmarkSeen"))
            ELSE st
        \* a stream without a replication key looks up the key None, which
        \* no persisted JSON object holds
        replication_key_value ==
            IF replication_key(s) THEN get_bookmark(raw, s, "rk") ELSE Null
        st2 == IF version # Null THEN write_bookmark(st1, s, "version", version)
               ELSE st1
        st3 == IF replication_key_value # Null
               THEN write_bookmark(st2, s, "rk", replication_key_value)
               ELSE st2
    IN  IF replication_method(s) = "INCREMENTAL" THEN st3
        ELSE IF replication_method(s) = "FULL_TABLE" /\ version = Null
        THEN write_bookmark(st1, s, "version", version)
        ELSE st1

RECURSIVE build_state_from(_, _, _)
build_state_from(st, raw, s) ==
    IF s > Len(catalog) THEN st
    ELSE build_state_from(build_state_entry(st, raw, s), raw, s + 1)

\* build_state(raw_state, catalog)
build_state(raw) == build_state_from(EmptyState(Len(catalog)), raw, 1)

\* singer.write_state(state): the state the State message carries.
write_state_dropped(st) == persisted
write_state(st) == st

\* ---------------------------------------------------------------- messages
SchemaMessage(s) == [type |-> "SCHEMA", stream |-> s, version |-> 0, batch |-> 0]
ActivateVersionMessage(s, v) ==
    [type |-> "ACTIVATE_VERSION", stream |-> s, version |-> v, batch |-> 0]
RecordMessage(s, v, b) == [type |-> "RECORD", stream |-> s, version |-> v, batch |-> b]

\* singer.write_schema in do_sync: the messages written so far, o, and the
\* stream's Schema message.
write_schema_skipped(o, s) == o
write_schema(o, s) == Append(o, SchemaMessage(s))

\* ------------------------------------------------------------ observations
\* The batch ids a BatchIDs slot lists.
Ids(b) == IF b = AbsentIDs \/ b = NullIDs THEN {} ELSE {b[i] : i \in 1..Len(b)}

\* Batches listed in the State message old and no longer in the next one, new.
RemovedBy(old, new) ==
    {<<s, b>> \in Streams \X (1..2) :
        /\ b \in Ids(old.bookmarks[s].BatchIDs)
        /\ b \notin Ids(new.bookmarks[s].BatchIDs)}

NoCall == [s |-> 0, key |-> FALSE, ver |-> Null, now |-> 0, res |-> 0]
NoReconcile == [s |-> 0, jhbs |-> Null, rk |-> Null]
NoResume ==
    [s |-> 0, exists |-> FALSE, ids |-> <<>>, jhbs0 |-> Null, rk0 |-> Null,
     qualified |-> FALSE, drained |-> <<>>]

\* hist at the start of a run whose input state is raw; removed and stale
\* carry over from the earlier runs.
RunHist(raw, removed, stale) ==
    [raw0 |-> raw,          \* the state the run was started with
     removed |-> removed,   \* <<stream, batch>> whose removal was flushed
     stalePrev |-> stale,   \* streams whose stale job an earlier run discarded
     stale |-> {},          \* streams whose job this run found stale
     fresh |-> {},          \* streams this run passed to sync_stream
     gsv |-> NoCall,        \* the last call of get_stream_version
     resume |-> NoResume,   \* the last call of resume_syncing_bulk_query
     rec |-> NoReconcile,   \* the bookmark before do_sync's last reconcile
     written |-> Null,      \* last JobHighestBookmarkSeen the current call wrote
     writer |-> "none",     \* the function that wrote it
     future |-> FALSE,      \* the current call saw a record later than start_time
     start |-> 0,           \* the bookmark the current call started from
     rkstart |-> Null,      \* the replication-key bookmark at the start of sync_records
     bookmarked |-> Null,   \* last record value sync_records wrote as bookmark
     seen |-> {}]           \* replication-key instants of the records of a chunked query

GsvCall(s, st, now) ==
    [s |-> s, key |-> replication_key(s), ver |-> get_bookmark(st, s, "version"),
     now |-> now, res |-> get_stream_version(s, st, now)]

\* singer.write_state(new): hist after the State message.
Flushed(h, new) == [h EXCEPT !.removed = @ \cup RemovedBy(persisted, new)]

\* ------------------------------------------------------------ request layer
\* backoff.on_exception(..., max_tries=10) on _make_request.
max_tries == 10
\* Salesforce.__init__: quota_percent_total and quota_percent_per_run when
\* the config gives none.
DefaultQuotaPercentTotal == 80
DefaultQuotaPercentPerRun == 25

\* The Sforce-Limit-Info header of a response: missing, a value the pattern
\* ^api-usage=(\d+)/(\d+)$ does not match, or api-usage=remaining/allotted.
NoHeader == [kind |-> "none", remaining |-> 0, allotted |-> 0]
OtherHeader == [kind |-> "other", remaining |-> 0, allotted |-> 0]
UsageHeader(r, a) == [kind |-> "usage", remaining |-> r, allotted |-> a]

\* int((self.quota_percent_per_run * allotted) / 100)
max_requests_for_run(p, allotted) == (p * allotted) \div 100
\* The sign of the rounding error of the float (remaining / allotted) * 100
\* against the quotient 100 * remaining / allotted, for the allotted
\* figures 4, 10 and 20 and every remaining figure up to allotted: the
\* float is the quotient but for 11/20, which gives 55.00000000000001.
percent_used_error(remaining, allotted) ==
    IF <<remaining, allotted>> = <<11, 20>> THEN 1 ELSE 0
\* percent_used_from_total > self.quota_percent_total, with
\* percent_used_from_total the float (remaining / allotted) * 100 and q a
\* whole number: the float is above q when the quotient is, or when the
\* quotient is q and the float was rounded up.
percent_used_exceeds(remaining, allotted, q) ==
    \/ remaining * 100 > q * allotted
    \/ remaining * 100 = q * allotted /\ percent_used_error(remaining, allotted) > 0

\* check_rest_quota_usage(headers) with rest_requests_attempted = attempted:
\* "none" when it returns, else the limit whose SymonException it raises.
check_rest_quota_usage_run_first(headers, attempted, q, p) ==
    IF headers.kind = "none" THEN "TypeError"
    ELSE IF headers.kind = "other" THEN "none"
    ELSE IF attempted > max_requests_for_run(p, headers.allotted) THEN "per_run"
    ELSE IF percent_used_exceeds(headers.remaining, headers.allotted, q)
    THEN "total"
    ELSE "none"
check_rest_quota_usage(headers, attempted, q, p) ==
    IF headers.kind = "none" THEN "TypeError"
    ELSE IF headers.kind = "other" THEN "none"
    ELSE IF percent_used_exceeds(headers.remaining, headers.allotted, q)
    THEN "total"
    ELSE IF attempted > max_requests_for_run(p, headers.allotted) THEN "per_run"
    ELSE "none"

\* Exceptions: the class, and for a SymonException what raised it.
NoException == [class |-> "none", why |-> "none"]
Exception(c, w) == [class |-> c, why |-> w]
QuotaException(limit) == Exception("SymonException", limit)
IsQuota(e) == e.why \in {"total", "per_run"}

\* The exception classes backoff retries _make_request on.
RetriesAny(e) == e.class \in {"ConnectionError", "Timeout", "HTTPError"}
Retries(e) == e.class \in {"ConnectionError", "Timeout"}

\* rest_requests_attempted as check_rest_quota_usage sees it: _make_request
\* increments it before the call.
AttemptedAfterCheck(n) == n
AttemptedAtCheck(n) == n + 1

\* The outcome of one attempt of _make_request: session.get / session.post
\* raises ConnectionError or Timeout, or returns a response with or without
\* error status and with any Sforce-Limit-Info header.
ConnectionFailure(c) == [kind |-> "error", class |-> c, ok |-> FALSE, headers |-> NoHeader]
Response(ok, h) == [kind |-> "response", class |-> "none", ok |-> ok, headers |-> h]
NoOutcome == [kind |-> "none", class |-> "none", ok |-> FALSE, headers |-> NoHeader]

\* What one attempt of _make_request(http_method, ...) does when rest_requests_attempted
\* is n and the attempt's outcome is o: the exception raised (NoException:
\* the response is returned), the new counter and whether a request was sent.
make_request_attempt(http_method, o, n, q, p) ==
    IF http_method \notin {"GET", "POST"}
    THEN [exc |-> Exception("TapSalesforceException", "method"), attempted |-> n,
          sent |-> FALSE, check |-> "skipped"]
    ELSE IF o.kind = "error"
    THEN [exc |-> Exception(o.class, "none"), attempted |-> n, sent |-> TRUE,
          check |-> "skipped"]
    ELSE IF ~o.ok
    THEN [exc |-> Exception("HTTPError", "none"), attempted |-> n, sent |-> TRUE,
          check |-> "skipped"]
    ELSE IF o.headers.kind = "none"
    THEN [exc |-> NoException, attempted |-> n, sent |-> TRUE, check |-> "skipped"]
    ELSE LET res == check_rest_quota_usage(o.headers, AttemptedAtCheck(n), q, p)
         IN  [exc |-> IF res = "none" THEN NoException ELSE QuotaException(res),
              attempted |-> n + 1, sent |-> TRUE, check |-> res]

\* The exception that leaves the caller of _make_request when e leaves
\* _make_request: login wraps every exception in Exception; sync_stream
\* turns an HTTP error into a SymonException or an Exception, lets
\* connection errors, timeouts and the quota SymonException through and
\* wraps the rest in Exception; do_sync's resume path has no handler.
Unwound(ctx, e) ==
    CASE ctx = "login" -> {Exception("Exception", e.why)}
      [] ctx = "sync" ->
            IF e.class = "HTTPError"
            THEN {Exception("SymonException", "api"), Exception("Exception", "none")}
            ELSE IF e.class \in {"ConnectionError", "Timeout"} \/ IsQuota(e)
            THEN {e}
            ELSE {Exception("Exception", e.why)}
      [] ctx = "resume" -> {e}

\* main: the exit status for the exception that left main_impl.  An
\* exception main re-raises ends the process with a traceback and status 1.
exit_status(e) ==
    IF e.class = "TapSalesforceQuotaExceededException" THEN 2
    ELSE IF e.class = "TapSalesforceException" THEN 1
    ELSE 1

NoCallInProgress == [ctx |-> "none", http_method |-> "none", tries |-> 0]
\* A thread's _make_request between the steps of its count: the response o
\* it got and the value of rest_requests_attempted its += loaded.
NoTimerLogin == [o |-> NoOutcome, loaded |-> 0]
\* The main thread's call of _make_request between its steps: the requests
\* it has sent (one an attempt), and o and loaded as above.
NoMainRequest == [o |-> NoOutcome, loaded |-> 0, tries |-> 0]
NoRequestHist ==
    [counted |-> 0,         \* responses without error status that carried the header
     calls |-> 0,           \* calls of _make_request by the main thread
     last |-> NoOutcome,    \* outcome of the main thread's last attempt
     check |-> "skipped",   \* result of that attempt's governor check
     seen |-> 0,            \* rest_requests_attempted as the last check read it
     retried |-> {},        \* exception classes the current call retried after
     tripped |-> FALSE,     \* a call of the main thread raised a quota SymonException
     refresh_tripped |-> FALSE, \* the login of a timer thread raised one
     sent_after_trip |-> FALSE] \* the main thread sent a request after one was raised

\* ------------------------------------------------------------------ inputs
Methods == {"INCREMENTAL", "FULL_TABLE", "NONE"}
\* Catalog entries: every combination of replication key and replication
\* method for a selected stream, and one stream that is not selected.
StreamKinds ==
    {[key |-> k, method |-> m, selected |-> TRUE] : k \in BOOLEAN, m \in Methods}
    \cup {[key |-> TRUE, method |-> "INCREMENTAL", selected |-> FALSE]}
Inc == [key |-> TRUE, method |-> "INCREMENTAL", selected |-> TRUE]
Full == [key |-> FALSE, method |-> "FULL_TABLE", selected |-> TRUE]
Unselected == [key |-> TRUE, method |-> "INCREMENTAL", selected |-> FALSE]

\* Instants of replication-key values: up to one past the last clock reading.
RecTimes == 1..(MaxClock + 1)

\* Bookmark dicts of a persisted state file: without job keys, and with a
\* JobID and any shape of BatchIDs and JobHighestBookmarkSeen.
RawBookmarks ==
    {NoBookmark} \cup
    {[entry |-> TRUE, version |-> v, rk |-> r, JobID |-> j[1], BatchIDs |-> j[2],
      JobHighestBookmarkSeen |-> j[3], other |-> Absent] :
        v \in {Absent, Null, 0},
        r \in {Absent, strftime(1), strftime(MaxClock + 1)},
        j \in {<<Absent, AbsentIDs, Absent>>}
              \cup ({7} \X {AbsentIDs, <<>>, <<1, 2>>} \X {Absent, strftime(2)})}
\* A job in flight with two batches left, listed in the order 2, 1, and an
\* incremental bookmark.
JobBookmark ==
    [entry |-> TRUE, version |-> 0, rk |-> strftime(1), JobID |-> 7,
     BatchIDs |-> <<2, 1>>, JobHighestBookmarkSeen |-> Absent, other |-> Absent]

RawState(bm) == [current_stream |-> Absent, other |-> Absent, bookmarks |-> bm]
\* A state file with a top-level key and a bookmark key the tap does not
\* interpret, next to an incremental bookmark.
UnknownKeysState ==
    [current_stream |-> Absent, other |-> 1,
     bookmarks |-> <<[NoBookmark EXCEPT !.entry = TRUE, !.version = 0,
                                        !.rk = strftime(1), !.other = 1]>>]

\* One-stream catalogs with every bookmark shape, and two-stream catalogs
\* with a few.
InitInputs ==
    {<<(<<k>>), RawState(<<b>>)>> : k \in StreamKinds, b \in RawBookmarks}
    \cup
    {<<(<<Unselected, Inc>>), RawState(<<NoBookmark, NoBookmark>>)>>,
     <<(<<Inc, Full>>), RawState(<<NoBookmark, NoBookmark>>)>>,
     <<(<<Inc, Full>>), RawState(<<JobBookmark, NoBookmark>>)>>,
     <<(<<Inc>>), UnknownKeysState>>}

\* The allotted figures of the usage header, and for each the remaining
\* figures: low, and around the limits; and the header 11/20, whose
\* percentage the float arithmetic rounds up from 55.
Allotments == {4, 10}
Remainings(a) == {1, a - 2, a - 1, a}
Headers ==
    {NoHeader, OtherHeader, UsageHeader(11, 20)}
    \cup UNION {{UsageHeader(r, a) : r \in Remainings(a)} : a \in Allotments}
Outcomes ==
    {ConnectionFailure(c) : c \in {"ConnectionError", "Timeout"}}
    \cup {Response(ok, h) : ok \in BOOLEAN, h \in Headers}
\* quota_percent_total and quota_percent_per_run: the defaults, a
\* configured pair, and a total limit that a header of the inputs meets
\* exactly.
QuotaConfigs ==
    {<<DefaultQuotaPercentTotal, DefaultQuotaPercentPerRun>>, <<50, 30>>,
     <<55, DefaultQuotaPercentPerRun>>}
HttpMethods == {"GET", "POST", "PUT"}

\* The orchestrator before main_impl builds the state, for one of inputs.
SyncInit(inputs) ==
    /\ \E inp \in inputs :
        /\ catalog = inp[1]
        /\ persisted = inp[2]
        /\ hist = RunHist(inp[2], {}, {})
        /\ state = EmptyState(Len(inp[1]))
    /\ default_start_date = RawTs(0)
    /\ pc = "start"
    /\ idx = 1
    /\ starting_stream = Null
    /\ stream_version = 0
    /\ sv = 0
    /\ start_time = 0
    /\ current_bookmark = 0
    /\ batch_queue = <<>>
    /\ cur_batch = 0
    /\ nrecs = 0
    /\ pk_chunking = FALSE
    /\ clock = 1
    /\ run = 1
    /\ out = <<>>

\* A Salesforce object with the quota percentages cfg and the count of
\* requests in counts (0 for a new Salesforce object); the request
\* layer is at position at.
RequestInit(cfgs, at, counts) ==
    /\ \E cfg \in cfgs :
        /\ quota_percent_total = cfg[1]
        /\ quota_percent_per_run = cfg[2]
    /\ rest_requests_attempted \in counts
    /\ rpc = at
    /\ call = NoCallInProgress
    /\ exc = NoException
    /\ exit_code = Null
    /\ rhist = NoRequestHist

\* Salesforce.__init__: login_timer = None, access_token = None; main_impl
\* is at the position at.
TimerInit(at) ==
    /\ mpc = at
    /\ main_exit = "none"
    /\ timers = <<>>
    /\ tlogin = <<>>
    /\ mreq = NoMainRequest
    /\ login_timer = 0
    /\ access_token = 0

\* The starting values of the variables a specification does not move.
OneRun == SyncInit({<<(<<Inc>>), RawState(<<NoBookmark>>)>>})
NoRequests ==
    RequestInit({<<DefaultQuotaPercentTotal, DefaultQuotaPercentPerRun>>}, "off", {0})
NoTimers == TimerInit("off")
NoSingleCall == fn = "none" /\ arg = Null /\ ret = <<>>

Init ==
    /\ SyncInit(InitInputs)
    /\ NoRequests
    /\ NoTimers
    /\ NoSingleCall

\* The run as the request layer sees it: main_impl is about to log in.
InitRequest ==
    /\ OneRun
    /\ RequestInit(QuotaConfigs, "login", {0})
    /\ NoTimers
    /\ NoSingleCall

\* ------------------------------------------------------------------ main_impl
\* main_impl: a new Salesforce object, state = build_state(args.state,
\* catalog), and do_sync up to the head of its loop.
MainImpl ==
    /\ pc = "start"
    /\ state' = build_state(persisted)
    /\ starting_stream' = Get(state'.current_stream)
    /\ pk_chunking' = FALSE
    /\ idx' = 1
    /\ pc' = "loop"
    /\ UNCHANGED <<catalog, default_start_date, persisted, stream_version, sv,
                   start_time, current_bookmark, batch_queue, cur_batch, nrecs,
                   clock, run, out, hist>>
    /\ UNCHANGED <<reqvars, auxvars>>

\* do_sync: "if starting_stream:" and not "starting_stream == stream_name":
\* the stream precedes the one the run resumes from.
already_synced_never(starting, s) == FALSE
already_synced(starting, s) == Truthy(starting) /\ starting # s

\* do_sync: a catalog entry that is not selected, or that precedes the
\* stream the run resumes from, is skipped.
StreamSkip ==
    /\ pc = "loop"
    /\ idx <= Len(catalog)
    /\ \/ ~stream_is_selected(idx)
       \/ already_synced(starting_stream, idx)
    /\ \E now \in ClockReads(clock) :
        /\ stream_version' = get_stream_version(idx, state, now)
        /\ hist' = [hist EXCEPT !.gsv = GsvCall(idx, state, now)]
        /\ clock' = now
    /\ idx' = idx + 1
    /\ UNCHANGED <<catalog, default_start_date, persisted, state, pc,
                   starting_stream, sv, start_time, current_bookmark,
                   batch_queue, cur_batch, nrecs, pk_chunking, run, out>>
    /\ UNCHANGED <<reqvars, auxvars>>

\* do_sync: the stream is synced: current_stream is set and flushed, the
\* schema is written, and the stream goes to the resume path when the state
\* holds a JobID and a non-empty BatchIDs.
StreamBegin ==
    /\ pc = "loop"
    /\ idx <= Len(catalog)
    /\ stream_is_selected(idx)
    /\ ~already_synced(starting_stream, idx)
    /\ \E now \in ClockReads(clock) :
        /\ stream_version' = get_stream_version(idx, state, now)
        /\ hist' = Flushed([hist EXCEPT !.gsv = GsvCall(idx, state, now)],
                           [state EXCEPT !.current_stream = idx])
        /\ clock' = now
    /\ starting_stream' = Null
    /\ state' = [state EXCEPT !.current_stream = idx]
    /\ persisted' = write_state(state')
    /\ out' = write_schema(out, idx)
    /\ pc' = IF Truthy(get_bookmark(state, idx, "JobID"))
                /\ TruthyIDs(get_bookmark_ids(state, idx))
             THEN "resume" ELSE "fresh"
    /\ UNCHANGED <<catalog, default_start_date, idx, sv, start_time,
                   current_bookmark, batch_queue, cur_batch, nrecs, pk_chunking,
                   run>>
    /\ UNCHANGED <<reqvars, auxvars>>

\* do_sync after its loop: current_stream is cleared and flushed.
DoSyncEnd ==
    /\ pc = "loop"
    /\ idx > Len(catalog)
    /\ state' = [state EXCEPT !.current_stream = Null]
    /\ persisted' = write_state(state')
    /\ hist' = Flushed(hist, state')
    /\ pc' = "done"
    /\ UNCHANGED <<catalog, default_start_date, idx, starting_stream,
                   stream_version, sv, start_time, current_bookmark, batch_queue,
                   cur_batch, nrecs, pk_chunking, clock, run, out>>
    /\ UNCHANGED <<reqvars, auxvars>>

\* ------------------------------------------------- resume_syncing_bulk_query
\* The answers Bulk.job_exists can give for a persisted job id.
JobExistsAnswers == BOOLEAN

\* The batch ids resume_syncing_bulk_query iterates: a copy of the persisted
\* BatchIDs list (batch_ids[:]).
ResumeBatchesFresh(st, s) == <<1, 2>>
ResumeBatchesReversed(st, s) ==
    LET ids == get_bookmark_ids(st, s)
    IN  [i \in 1..Len(ids) |-> ids[Len(ids) + 1 - i]]
ResumeBatches(st, s) == get_bookmark_ids(st, s)

\* The bookmark resume_syncing_bulk_query starts from.
ResumeStartBookmark(st, s) ==
    strptime_with_tz(Or(get_bookmark(st, s, "JobHighestBookmarkSeen"),
                        get_start_date(st, s)))

\* The bookmark after a record whose replication-key string is v (Null for
\* a stream without replication key), given the bookmark cb so far.
AdvanceAlways(cb, v, st) ==
    IF v # Null /\ strptime_with_tz(v) > cb THEN strptime_with_tz(v) ELSE cb
AdvanceLatest(cb, v, st) ==
    IF v # Null /\ strptime_with_tz(v) <= st THEN strptime_with_tz(v) ELSE cb
Advance(cb, v, st) ==
    IF v # Null /\ strptime_with_tz(v) <= st /\ strptime_with_tz(v) > cb
    THEN strptime_with_tz(v) ELSE cb

\* rec[replication_key] of a transformed record whose source value is the
\* instant t.
RecordKeyValue(s, t) ==
    IF replication_key(s) THEN transform_datetime(RawTs(t)) ELSE Null

\* resume_syncing_bulk_query up to its loop: the locals are set, and the
\* function returns at once when the job no longer exists.
ResumeStart ==
    /\ pc = "resume"
    /\ current_bookmark' = ResumeStartBookmark(state, idx)
    /\ \E t1 \in ClockReads(clock) : \E t2 \in ClockReads(t1) :
        /\ start_time' = t1
        /\ sv' = get_stream_version(idx, state, t2)
        /\ clock' = t2
        /\ \E exists \in JobExistsAnswers :
            /\ pc' = IF exists THEN "batch" ELSE "reconcile"
            /\ batch_queue' = IF exists THEN ResumeBatches(state, idx) ELSE <<>>
            /\ hist' = [hist EXCEPT
                  !.gsv = GsvCall(idx, state, t2),
                  !.stale = IF exists THEN @ ELSE @ \cup {idx},
                  !.resume = [s |-> idx, exists |-> exists,
                              ids |-> get_bookmark_ids(state, idx),
                              jhbs0 |-> get_bookmark(state, idx, "JobHighestBookmarkSeen"),
                              rk0 |-> get_bookmark(state, idx, "rk"),
                              qualified |-> FALSE, drained |-> <<>>],
                  !.written = Null,
                  !.writer = "none",
                  !.future = FALSE,
                  !.start = ResumeStartBookmark(state, idx)]
    /\ cur_batch' = 0
    /\ nrecs' = 0
    /\ UNCHANGED <<catalog, default_start_date, persisted, state, idx,
                   starting_stream, stream_version, pk_chunking, run, out>>
    /\ UNCHANGED <<reqvars, auxvars>>

\* The loop takes the next batch id and asks for its results.
BatchBegin ==
    /\ pc = "batch"
    /\ batch_queue # <<>>
    /\ cur_batch' = Head(batch_queue)
    /\ nrecs' = 0
    /\ pc' = "drain"
    /\ hist' = [hist EXCEPT !.resume.drained = Append(@, Head(batch_queue))]
    /\ UNCHANGED <<catalog, default_start_date, persisted, state, idx,
                   starting_stream, stream_version, sv, start_time,
                   current_bookmark, batch_queue, pk_chunking, clock, run, out>>
    /\ UNCHANGED <<reqvars, auxvars>>

\* One record of the batch: it is written, and current_bookmark follows its
\* replication-key value.
BatchRecord ==
    /\ pc = "drain"
    /\ nrecs < MaxRecs
    /\ \E t \in RecTimes :
        /\ out' = Append(out, RecordMessage(idx, sv, cur_batch))
        /\ current_bookmark' =
              Advance(current_bookmark, RecordKeyValue(idx, t), start_time)
        /\ hist' = [hist EXCEPT
              !.resume.qualified = @ \/ current_bookmark' # current_bookmark,
              !.future = @ \/ (replication_key(idx) /\ t > start_time)]
    /\ nrecs' = nrecs + 1
    /\ UNCHANGED <<catalog, default_start_date, persisted, state, pc, idx,
                   starting_stream, stream_version, sv, start_time, batch_queue,
                   cur_batch, pk_chunking, clock, run>>
    /\ UNCHANGED <<reqvars, auxvars>>

BatchDoneListed(st, s, cb, b) ==
    write_bookmark(st, s, "JobHighestBookmarkSeen", strftime(cb))
\* The state after a batch has been drained: JobHighestBookmarkSeen is
\* written and the batch id removed from BatchIDs.
BatchDone(st, s, cb, b) ==
    write_bookmark_ids(
        write_bookmark(st, s, "JobHighestBookmarkSeen", strftime(cb)),
        s, ListRemove(get_bookmark_ids(st, s), b))

\* The batch has no more records: the state is updated and flushed.
BatchEnd ==
    /\ pc = "drain"
    /\ state' = BatchDone(state, idx, current_bookmark, cur_batch)
    /\ persisted' = write_state(state')
    /\ hist' = Flushed([hist EXCEPT !.written = strftime(current_bookmark),
                                     !.writer = "resume"], state')
    /\ batch_queue' = Tail(batch_queue)
    /\ cur_batch' = 0
    /\ nrecs' = 0
    /\ pc' = IF Tail(batch_queue) = <<>> THEN "reconcile" ELSE "batch"
    /\ UNCHANGED <<catalog, default_start_date, idx, starting_stream,
                   stream_version, sv, start_time, current_bookmark, pk_chunking,
                   clock, run, out>>
    /\ UNCHANGED <<reqvars, auxvars>>

\* do_sync after resume_syncing_bulk_query returned: the job keys are popped
\* and JobHighestBookmarkSeen, else the existing bookmark, is written under
\* the replication key.
ReconcileNoFallback(st, s) ==
    LET b == st.bookmarks[s]
    IN  [st EXCEPT !.bookmarks[s] =
            [b EXCEPT !.JobID = Absent, !.BatchIDs = AbsentIDs,
                      !.JobHighestBookmarkSeen = Absent,
                      !.rk = Get(b.JobHighestBookmarkSeen)]]
ReconcileKeepJob(st, s) ==
    LET b == st.bookmarks[s]
    IN  [st EXCEPT !.bookmarks[s] =
            [b EXCEPT !.JobHighestBookmarkSeen = Absent,
                      !.rk = Or(Get(b.JobHighestBookmarkSeen), Get(b.rk))]]
ReconcileSwapped(st, s) ==
    LET b == st.bookmarks[s]
    IN  [st EXCEPT !.bookmarks[s] =
            [b EXCEPT !.JobID = Absent, !.BatchIDs = AbsentIDs,
                      !.JobHighestBookmarkSeen = Absent,
                      !.rk = Or(Get(b.rk), Get(b.JobHighestBookmarkSeen))]]
Reconciled(st, s) ==
    LET b == st.bookmarks[s]
        bookmark == Get(b.JobHighestBookmarkSeen)
        existing_bookmark == Get(b.rk)
    IN  [st EXCEPT !.bookmarks[s] =
            [b EXCEPT !.JobID = Absent, !.BatchIDs = AbsentIDs,
                      !.JobHighestBookmarkSeen = Absent,
                      !.rk = Or(bookmark, existing_bookmark)]]

Reconcile ==
    /\ pc = "reconcile"
    /\ state' = Reconciled(state, idx)
    /\ persisted' = write_state(state')
    /\ hist' = Flushed([hist EXCEPT !.rec =
                    [s |-> idx,
                     jhbs |-> get_bookmark(state, idx, "JobHighestBookmarkSeen"),
                     rk |-> get_bookmark(state, idx, "rk")]], state')
    /\ idx' = idx + 1
    /\ pc' = "loop"
    /\ UNCHANGED <<catalog, default_start_date, starting_stream, stream_version,
                   sv, start_time, current_bookmark, batch_queue, cur_batch,
                   nrecs, pk_chunking, clock, run, out>>
    /\ UNCHANGED <<reqvars, auxvars>>

\* ---------------------------------------------------- do_sync, fresh path
\* do_sync's else branch up to the call of sync_stream: a stream with a
\* replication key or without bookmark entry gets an activate-version
\* message and the version written to its bookmark.
ActivatesAlways(s, st) == TRUE
ActivatesAtStart(s, st) ==
    LET bookmark_is_empty == ~st.bookmarks[s].entry
    IN  replication_key(s) \/ bookmark_is_empty

\* The order of the two steps do_sync takes for such a stream: the
\* activate-version message is written, then the version is put into the
\* stream's bookmark.
FreshOrderVersionFirst == <<"version", "message">>
FreshOrder == <<"message", "version">>

\* One of the two steps.
FreshStep(step) ==
    IF step = "message"
    THEN /\ out' = Append(out, ActivateVersionMessage(idx, stream_version))
         /\ UNCHANGED state
    ELSE /\ state' = write_bookmark(state, idx, "version", stream_version)
         /\ UNCHANGED out

FreshBegin ==
    /\ pc = "fresh"
    /\ IF ActivatesAtStart(idx, state)
       THEN FreshStep(FreshOrder[1]) /\ pc' = "activate"
       ELSE UNCHANGED <<out, state>> /\ pc' = "sync"
    /\ hist' = [hist EXCEPT !.fresh = @ \cup {idx}]
    /\ UNCHANGED <<catalog, default_start_date, persisted, idx, starting_stream,
                   stream_version, sv, start_time, current_bookmark, batch_queue,
                   cur_batch, nrecs, pk_chunking, clock, run>>
    /\ UNCHANGED <<reqvars, auxvars>>

\* The second step, after which do_sync calls sync_stream.
FreshActivate ==
    /\ pc = "activate"
    /\ FreshStep(FreshOrder[2])
    /\ pc' = "sync"
    /\ UNCHANGED <<catalog, default_start_date, persisted, idx, starting_stream,
                   stream_version, sv, start_time, current_bookmark, batch_queue,
                   cur_batch, nrecs, pk_chunking, clock, run, hist>>
    /\ UNCHANGED <<reqvars, auxvars>>

\* Whether the query of a stream runs with primary-key chunking (Bulk sets
\* sf.pk_chunking).
PkChunkingChoices == BOOLEAN

\* sync_records up to its loop: chunked_bookmark, stream_version and
\* start_time are set and the query is started.
SyncRecordsStart ==
    /\ pc = "sync"
    /\ current_bookmark' = strptime_with_tz(get_start_date(state, idx))
    /\ \E t1 \in ClockReads(clock) : \E t2 \in ClockReads(t1) :
        /\ sv' = get_stream_version(idx, state, t1)
        /\ start_time' = t2
        /\ clock' = t2
        /\ hist' = [hist EXCEPT
              !.gsv = GsvCall(idx, state, t1),
              !.written = Null,
              !.writer = "none",
              !.future = FALSE,
              !.start = strptime_with_tz(get_start_date(state, idx)),
              !.rkstart = get_bookmark(state, idx, "rk"),
              !.bookmarked = Null,
              !.seen = {}]
    /\ \E chunk \in PkChunkingChoices : pk_chunking' = chunk
    /\ nrecs' = 0
    /\ pc' = "records"
    /\ UNCHANGED <<catalog, default_start_date, persisted, state, idx,
                   starting_stream, stream_version, batch_queue, cur_batch, run,
                   out>>
    /\ UNCHANGED <<reqvars, auxvars>>

\* Whether sync_records writes a record's replication-key value v as the
\* bookmark (no pk_chunking).
BookmarkableAlways(v, st) == v # Null
Bookmarkable(v, st) == v # Null /\ strptime_with_tz(v) <= st

\* One record of the query: it is written with the stream version, and the
\* bookmark or, with pk_chunking, JobHighestBookmarkSeen is written and
\* flushed when the record's replication-key value allows it.
SyncRecord ==
    /\ pc = "records"
    /\ nrecs < MaxRecs
    /\ out' = Append(out, RecordMessage(idx, sv, 0))
    /\ nrecs' = nrecs + 1
    /\ \E t \in RecTimes :
        LET v == RecordKeyValue(idx, t)
            cb == Advance(current_bookmark, v, start_time)
            h == [hist EXCEPT
                     !.future = @ \/ (replication_key(idx) /\ t > start_time),
                     !.seen = IF pk_chunking /\ replication_key(idx)
                              THEN @ \cup {t} ELSE @]
        IN  IF pk_chunking
            THEN /\ current_bookmark' = cb
                 /\ IF cb # current_bookmark
                    THEN /\ state' = write_bookmark(state, idx,
                                        "JobHighestBookmarkSeen", strftime(cb))
                         /\ persisted' = write_state(state')
                         /\ hist' = Flushed([h EXCEPT !.written = strftime(cb),
                                                      !.writer = "sync_records"],
                                            state')
                    ELSE /\ UNCHANGED <<state, persisted>>
                         /\ hist' = h
            ELSE /\ UNCHANGED current_bookmark
                 /\ IF Bookmarkable(v, start_time)
                    THEN /\ state' = write_bookmark(state, idx, "rk", v)
                         /\ persisted' = write_state(state')
                         /\ hist' = Flushed([h EXCEPT !.bookmarked = v], state')
                    ELSE /\ UNCHANGED <<state, persisted>>
                         /\ hist' = h
    /\ UNCHANGED <<catalog, default_start_date, pc, idx, starting_stream,
                   stream_version, sv, start_time, batch_queue, cur_batch,
                   pk_chunking, clock, run>>
    /\ UNCHANGED <<reqvars, auxvars>>

\* The version the closing activate-version message of sync_records carries:
\* the message is built from sync_records' stream_version before the loop.
ClosingVersionOuter(inner, outer) == outer
ClosingVersion(inner, outer) == inner

\* The state sync_records leaves after its loop.
SyncRecordsDone(st, s, cb, chunked) ==
    LET st1 == IF ~replication_key(s) THEN write_bookmark(st, s, "version", Null)
               ELSE st
    IN  IF chunked THEN write_bookmark(st1, s, "rk", strftime(cb)) ELSE st1

\* The query is exhausted: sync_records ends, sync_stream flushes the state
\* and do_sync goes to the next catalog entry.
SyncRecordsEnd ==
    /\ pc = "records"
    /\ out' = IF ~replication_key(idx)
              THEN Append(out, ActivateVersionMessage(idx,
                                   ClosingVersion(sv, stream_version)))
              ELSE out
    /\ state' = SyncRecordsDone(state, idx, current_bookmark, pk_chunking)
    /\ persisted' = write_state(state')
    /\ hist' = Flushed(hist, state')
    /\ idx' = idx + 1
    /\ pc' = "loop"
    /\ UNCHANGED <<catalog, default_start_date, starting_stream, stream_version,
                   sv, start_time, current_bookmark, batch_queue, cur_batch,
                   nrecs, pk_chunking, clock, run>>
    /\ UNCHANGED <<reqvars, auxvars>>

\* ------------------------------------------------------------------- runs
\* The process starts again from the last State message written, after the
\* run ended (NextRun) or was interrupted (Interrupt): an error that unwinds
\* the run or a kill of the process.
Restart ==
    /\ run < MaxRuns
    /\ run' = run + 1
    /\ pc' = "start"
    /\ hist' = RunHist(persisted, hist.removed,
                        hist.stalePrev \cup
                        {s \in hist.stale : persisted.bookmarks[s].JobID = Absent})
    /\ state' = EmptyState(Len(catalog))
    /\ idx' = 1
    /\ starting_stream' = Null
    /\ stream_version' = 0
    /\ sv' = 0
    /\ start_time' = 0
    /\ current_bookmark' = 0
    /\ batch_queue' = <<>>
    /\ cur_batch' = 0
    /\ nrecs' = 0
    /\ pk_chunking' = FALSE
    /\ out' = <<>>
    /\ UNCHANGED <<catalog, default_start_date, persisted, clock>>
    /\ UNCHANGED <<reqvars, auxvars>>

Interrupt == pc \notin {"start", "done"} /\ Restart
NextRun == pc = "done" /\ Restart

Next ==
    \/ MainImpl
    \/ StreamSkip
    \/ StreamBegin
    \/ DoSyncEnd
    \/ ResumeStart
    \/ BatchBegin
    \/ BatchRecord
    \/ BatchEnd
    \/ Reconcile
    \/ FreshBegin
    \/ FreshActivate
    \/ SyncRecordsStart
    \/ SyncRecord
    \/ SyncRecordsEnd
    \/ Interrupt
    \/ NextRun

Spec == Init /\ [][Next]_vars

\* -------------------------------------------------------- do_sync, directly
\* A stream name that no entry of the catalog has.
UnknownStream == 9
\* A bookmark as build_state leaves it for an incremental stream.
PlainBookmark ==
    [NoBookmark EXCEPT !.entry = TRUE, !.version = 0, !.rk = strftime(1)]
\* States do_sync is called with: bookmarks, and a current_stream marker
\* that is missing, null, a stream of the catalog or no stream of it.
DoSyncInputs ==
    {<<inp[1], [current_stream |-> cs, other |-> Absent, bookmarks |-> inp[2]]>> :
        inp \in {<<(<<Inc>>), <<NoBookmark>>>>,
                 <<(<<Inc>>), <<PlainBookmark>>>>,
                 <<(<<Unselected, Inc>>), <<NoBookmark, PlainBookmark>>>>,
                 <<(<<Inc, Full>>), <<PlainBookmark, NoBookmark>>>>,
                 <<(<<Inc, Full>>), <<JobBookmark, NoBookmark>>>>},
        cs \in {Absent, Null, 1, 2, UnknownStream}}

\* do_sync(sf, catalog, state) is entered with one of these states:
\* starting_stream = state.get("current_stream").
InitDoSync ==
    /\ \E inp \in DoSyncInputs :
        /\ catalog = inp[1]
        /\ state = inp[2]
        /\ persisted = inp[2]
        /\ hist = RunHist(inp[2], {}, {})
        /\ starting_stream = Get(inp[2].current_stream)
    /\ default_start_date = RawTs(0)
    /\ pc = "loop"
    /\ idx = 1
    /\ stream_version = 0
    /\ sv = 0
    /\ start_time = 0
    /\ current_bookmark = 0
    /\ batch_queue = <<>>
    /\ cur_batch = 0
    /\ nrecs = 0
    /\ pk_chunking = FALSE
    /\ clock = 1
    /\ run = 1
    /\ out = <<>>
    /\ NoRequests
    /\ NoTimers
    /\ NoSingleCall

DoSyncSpec == InitDoSync /\ [][Next]_vars

\* threading.Timer.cancel() on a timer in status s: the finished event is
\* set, which stops a timer that has not yet ended its wait.
cancel(s) == IF s \in {"created", "pending"} THEN "cancelled" ELSE s

start_skipped(s) == s
\* threading.Timer.start() on a timer in status s.
start(s) == IF s = "created" THEN "pending" ELSE s

\* A quota SymonException was raised, on the main thread or on a timer's.
AnyTrip(h) == h.tripped \/ h.refresh_tripped

\* The response o is counted: it has no error status and carries the header.
Counted(o) == o.kind = "response" /\ o.ok /\ o.headers.kind # "none"

\* The observation record when login's call of _make_request("POST") on
\* the main thread has made its last attempt, with outcome o, after it
\* retried the exceptions of the classes in retried.
Began(h, o, retried) ==
    [h EXCEPT !.counted = IF Counted(o) THEN @ + 1 ELSE @,
              !.calls = @ + 1,
              !.last = o,
              !.check = "skipped",
              !.retried = retried]
\* The observation record when check_rest_quota_usage on the main thread
\* read n in rest_requests_attempted and ended with res.
Checked(h, res, n) ==
    [h EXCEPT !.check = res,
              !.seen = n,
              !.tripped = @ \/ res \in {"total", "per_run"}]

\* ------------------------------------------------------------ remote calls
\* main_impl: sf.login() posts the token request through _make_request.
Login ==
    /\ rpc = "login"
    /\ call' = [ctx |-> "login", http_method |-> "POST", tries |-> 0]
    /\ rpc' = "request"
    /\ rhist' = [rhist EXCEPT !.calls = @ + 1, !.retried = {}]
    /\ UNCHANGED <<quota_percent_total, quota_percent_per_run,
                   rest_requests_attempted, exc, exit_code>>
    /\ UNCHANGED <<syncvars, auxvars>>

\* do_sync makes a remote call through _make_request: from sync_stream
\* (the query of sync_records / sync_report) or from the resume path.
CallBegin ==
    /\ rpc = "ready"
    /\ rhist.calls < MaxCalls
    /\ \E ctx \in {"sync", "resume"} : \E m \in HttpMethods :
        call' = [ctx |-> ctx, http_method |-> m, tries |-> 0]
    /\ rpc' = "request"
    /\ rhist' = [rhist EXCEPT !.calls = @ + 1, !.retried = {}]
    /\ UNCHANGED <<quota_percent_total, quota_percent_per_run,
                   rest_requests_attempted, exc, exit_code>>
    /\ UNCHANGED <<syncvars, auxvars>>

\* main_impl's finally block, taken in one step: sf.login_timer.cancel() on
\* the timer sf.login_timer refers to, when there is one.
Cancelled(ts, lt) == IF lt # 0 THEN [ts EXCEPT ![lt] = cancel(@)] ELSE ts

\* One attempt of _make_request under backoff: the response is returned,
\* the attempt is retried, or the exception leaves _make_request.  No timer
\* thread runs in these runs (NextRequest), so the main thread's load and
\* store of rest_requests_attempted and the read of its check are one step
\* here; TimerSpec has them as separate steps.  When the call is login's
\* and it ends, by return or by exception, login's finally block creates
\* and starts the first timer.
Attempt ==
    /\ rpc = "request"
    /\ \E o \in Outcomes :
        LET a == make_request_attempt(call.http_method, o, rest_requests_attempted,
                                      quota_percent_total, quota_percent_per_run)
            tries == call.tries + 1
            retry == a.exc # NoException /\ Retries(a.exc) /\ tries < max_tries
            login_ends == call.ctx = "login" /\ ~retry
        IN  /\ rest_requests_attempted' = a.attempted
            /\ call' = IF a.exc = NoException THEN NoCallInProgress
                       ELSE [call EXCEPT !.tries = tries]
            /\ rpc' = IF a.exc = NoException THEN "ready"
                      ELSE IF retry THEN "request" ELSE "raise"
            /\ exc' = IF a.exc # NoException /\ ~retry THEN a.exc ELSE exc
            /\ rhist' = [rhist EXCEPT
                  !.counted = IF a.sent /\ o.kind = "response" /\ o.ok
                                 /\ o.headers.kind # "none"
                              THEN @ + 1 ELSE @,
                  !.last = IF a.sent THEN o ELSE NoOutcome,
                  !.check = a.check,
                  !.seen = IF a.check = "skipped" THEN @
                           ELSE AttemptedAtCheck(rest_requests_attempted),
                  !.retried = IF retry THEN @ \cup {a.exc.class} ELSE @,
                  !.tripped = @ \/ IsQuota(a.exc),
                  !.sent_after_trip = @ \/ (AnyTrip(rhist) /\ a.sent)]
            /\ access_token' = IF login_ends /\ a.exc = NoException
                               THEN MaxTimers + 1 ELSE access_token
            /\ timers' = IF login_ends THEN Append(timers, start("created"))
                         ELSE timers
            /\ tlogin' = IF login_ends THEN Append(tlogin, NoTimerLogin) ELSE tlogin
            /\ login_timer' = IF login_ends THEN Len(timers) + 1 ELSE login_timer
    /\ UNCHANGED <<quota_percent_total, quota_percent_per_run, exit_code>>
    /\ UNCHANGED <<mpc, main_exit, mreq>>
    /\ UNCHANGED <<syncvars, callvars>>

\* The exception unwinds through the caller and main_impl, whose finally
\* block cancels sf.login_timer, to main, which ends the process.
Unwind ==
    /\ rpc = "raise"
    /\ \E e \in Unwound(call.ctx, exc) :
        /\ exc' = e
        /\ exit_code' = exit_status(e)
    /\ rpc' = "exit"
    /\ timers' = Cancelled(timers, login_timer)
    /\ UNCHANGED <<quota_percent_total, quota_percent_per_run,
                   rest_requests_attempted, call, rhist>>
    /\ UNCHANGED <<mpc, main_exit, tlogin, mreq, login_timer, access_token>>
    /\ UNCHANGED <<syncvars, callvars>>

\* do_sync returns: main_impl's finally block cancels sf.login_timer and
\* the run ends without error.
RunEnd ==
    /\ rpc = "ready"
    /\ exit_code' = 0
    /\ rpc' = "exit"
    /\ timers' = Cancelled(timers, login_timer)
    /\ UNCHANGED <<quota_percent_total, quota_percent_per_run,
                   rest_requests_attempted, call, exc, rhist>>
    /\ UNCHANGED <<mpc, main_exit, tlogin, mreq, login_timer, access_token>>
    /\ UNCHANGED <<syncvars, callvars>>

\* ------------------------------------------------------ token-refresh timer
\* login's finally block starts a threading.Timer that calls login again on
\* its own thread after REFRESH_TOKEN_EXPIRATION_PERIOD; main_impl's finally
\* block cancels sf.login_timer.  A timer is "created" (not started),
\* "pending" (waiting), "firing" (its wait ended without cancel: it calls
\* login), "counting" (its login's response is counted: _make_request has
\* loaded rest_requests_attempted for the +=), "checking" (it has stored the
\* counter and calls check_rest_quota_usage), "finally" (its login is in the
\* finally block), "starting" (it has assigned the next timer), "done" or
\* "cancelled".
InitTimer ==
    /\ OneRun
    /\ RequestInit(QuotaConfigs, "off", {0})
    /\ TimerInit("login")
    /\ NoSingleCall

\* The timers are daemon threads: they run until the process ends.
Alive == rpc # "exit"

\* The outcomes of the token request of a timer thread: no connection, an
\* error status, and a response without usage header, with usage under the
\* total limit (1 of 4: the per-run limit is one request) or over it.
RefreshOutcomes ==
    {ConnectionFailure("ConnectionError"), Response(FALSE, NoHeader)}
    \cup {Response(TRUE, h) : h \in {NoHeader, UsageHeader(1, 4), UsageHeader(9, 10)}}

\* The outcomes of an attempt of a call of the main thread, and for
\* login's call, of which o is the outcome of the last attempt, the
\* exception classes it retried before: a call that a connection error or a
\* timeout leaves has made max_tries attempts, all of which failed so; any
\* other outcome can follow attempts that failed so.
MainOutcomes == RefreshOutcomes \cup {ConnectionFailure("Timeout")}
RetriedBefore(o) ==
    IF o.kind = "error" THEN {{o.class}, {"ConnectionError", "Timeout"}}
    ELSE {{}, {"Timeout"}}

\* main_impl: sf.login() on the main thread, with o the outcome of the last
\* attempt of its _make_request("POST"); its finally block creates and
\* starts the first timer whether the login succeeded or not.  No timer
\* exists before that finally block, so no other thread runs during this
\* call: no quota exception has been raised when it sends its requests, and
\* nothing else touches rest_requests_attempted.
MainLogin ==
    /\ mpc = "login"
    /\ \E o \in MainOutcomes : \E retried \in RetriedBefore(o) :
        LET a == make_request_attempt("POST", o, rest_requests_attempted,
                                      quota_percent_total, quota_percent_per_run)
            began == Began(rhist, o, retried)
        IN  /\ rest_requests_attempted' = a.attempted
            /\ access_token' = IF a.exc = NoException THEN MaxTimers + 1
                               ELSE access_token
            /\ mpc' = IF a.exc = NoException THEN "run" ELSE "cleanup"
            /\ main_exit' = IF a.exc = NoException THEN main_exit ELSE "error"
            /\ rhist' = IF Counted(o)
                         THEN Checked(began, a.check,
                                      AttemptedAtCheck(rest_requests_attempted))
                         ELSE began
    /\ timers' = Append(timers, start("created"))
    /\ tlogin' = Append(tlogin, NoTimerLogin)
    /\ login_timer' = Len(timers) + 1
    /\ UNCHANGED <<quota_percent_total, quota_percent_per_run, rpc, call, exc,
                   exit_code>>
    /\ UNCHANGED mreq
    /\ UNCHANGED <<syncvars, callvars>>

\* main_impl: an attempt of a call of _make_request by do_discover or
\* do_sync on the main thread sends its request: the first attempt of a new
\* call, or the next one after backoff's wait.
MainSend ==
    /\ mpc \in {"run", "backoff"}
    /\ mpc = "run" => rhist.calls < MaxCalls
    /\ mpc' = "sent"
    /\ mreq' = [mreq EXCEPT !.tries = @ + 1]
    /\ rhist' = [rhist EXCEPT !.calls = IF mpc = "run" THEN @ + 1 ELSE @,
                              !.retried = IF mpc = "run" THEN {} ELSE @,
                              !.sent_after_trip = @ \/ AnyTrip(rhist)]
    /\ UNCHANGED <<quota_percent_total, quota_percent_per_run,
                   rest_requests_attempted, rpc, call, exc, exit_code>>
    /\ UNCHANGED <<main_exit, timers, tlogin, login_timer, access_token>>
    /\ UNCHANGED <<syncvars, callvars>>

\* _make_request on the main thread: the attempt ends with outcome o.  A
\* connection error or a timeout is retried, but for the last of max_tries
\* attempts; any other outcome that raises ends the try block; a response
\* without Sforce-Limit-Info is returned.  A response with the header is
\* counted: self.rest_requests_attempted += 1 loads the counter.
MainRequest ==
    /\ mpc = "sent"
    /\ \E o \in MainOutcomes :
        LET a == make_request_attempt("GET", o, rest_requests_attempted,
                                      quota_percent_total, quota_percent_per_run)
            retry == ~Counted(o) /\ Retries(a.exc) /\ mreq.tries < max_tries
        IN  /\ mpc' = IF retry THEN "backoff"
                      ELSE IF Counted(o) THEN "counting"
                      ELSE IF a.exc = NoException THEN "run" ELSE "cleanup"
            /\ main_exit' = IF ~retry /\ ~Counted(o) /\ a.exc # NoException
                             THEN "error" ELSE main_exit
            /\ mreq' = IF retry THEN mreq
                        ELSE IF Counted(o)
                        THEN [NoMainRequest EXCEPT
                                 !.o = o, !.loaded = rest_requests_attempted]
                        ELSE NoMainRequest
            /\ rhist' = [rhist EXCEPT
                  !.counted = IF Counted(o) THEN @ + 1 ELSE @,
                  !.last = o,
                  !.check = "skipped",
                  !.retried = IF retry THEN @ \cup {a.exc.class} ELSE @]
    /\ UNCHANGED <<quota_percent_total, quota_percent_per_run,
                   rest_requests_attempted, rpc, call, exc, exit_code>>
    /\ UNCHANGED <<timers, tlogin, login_timer, access_token>>
    /\ UNCHANGED <<syncvars, callvars>>

\* _make_request on the main thread: the += stores the value it loaded plus
\* one, whatever a timer thread has stored meanwhile.
MainCount ==
    /\ mpc = "counting"
    /\ rest_requests_attempted' = mreq.loaded + 1
    /\ mpc' = "checking"
    /\ UNCHANGED <<quota_percent_total, quota_percent_per_run, rpc, call, exc,
                   exit_code, rhist>>
    /\ UNCHANGED <<main_exit, timers, tlogin, mreq, login_timer, access_token>>
    /\ UNCHANGED <<syncvars, callvars>>

\* _make_request on the main thread: check_rest_quota_usage reads the
\* counter as it is now.  When it returns, the call returns; its
\* SymonException ends the try block.
MainQuotaCheck ==
    /\ mpc = "checking"
    /\ LET res == check_rest_quota_usage(mreq.o.headers, rest_requests_attempted,
                                         quota_percent_total, quota_percent_per_run)
       IN  /\ mpc' = IF res = "none" THEN "run" ELSE "cleanup"
           /\ main_exit' = IF res = "none" THEN main_exit ELSE "error"
           /\ rhist' = Checked(rhist, res, rest_requests_attempted)
    /\ mreq' = NoMainRequest
    /\ UNCHANGED <<quota_percent_total, quota_percent_per_run,
                   rest_requests_attempted, rpc, call, exc, exit_code>>
    /\ UNCHANGED <<timers, tlogin, login_timer, access_token>>
    /\ UNCHANGED <<syncvars, callvars>>

\* main_impl: do_discover or do_sync returns or raises.
MainRun ==
    /\ mpc = "run"
    /\ \E e \in {"normal", "error"} : main_exit' = e
    /\ mpc' = "cleanup"
    /\ UNCHANGED <<timers, tlogin, mreq, login_timer, access_token>>
    /\ UNCHANGED <<syncvars, reqvars, callvars>>

\* main_impl's finally block: if sf.login_timer:
MainCheck ==
    /\ mpc = "cleanup"
    /\ mpc' = IF login_timer # 0 THEN "cancel" ELSE "exited"
    /\ UNCHANGED <<main_exit, timers, tlogin, mreq, login_timer, access_token>>
    /\ UNCHANGED <<syncvars, reqvars, callvars>>

\* main_impl's finally block: sf.login_timer.cancel(), on the timer
\* sf.login_timer refers to now.
MainCancel ==
    /\ mpc = "cancel"
    /\ timers' = [timers EXCEPT ![login_timer] = cancel(@)]
    /\ mpc' = "exited"
    /\ UNCHANGED <<main_exit, tlogin, mreq, login_timer, access_token>>
    /\ UNCHANGED <<syncvars, reqvars, callvars>>

\* Timer.run of timer i: the wait ends and the timer was not cancelled.
TimerFire(i) ==
    /\ Alive
    /\ timers[i] = "pending"
    /\ Len(timers) < MaxTimers
    /\ timers' = [timers EXCEPT ![i] = "firing"]
    /\ UNCHANGED <<mpc, main_exit, tlogin, mreq, login_timer, access_token>>
    /\ UNCHANGED <<syncvars, reqvars, callvars>>

\* login on the thread of timer i: its _make_request("POST"), with o the
\* outcome of the last attempt.  An outcome that raises, or a response
\* without Sforce-Limit-Info, ends the try block: the response sets
\* access_token, the exception is wrapped in Exception.  A response with the
\* header is counted: self.rest_requests_attempted += 1 loads the counter.
TimerLogin(i) ==
    /\ Alive
    /\ timers[i] = "firing"
    /\ \E o \in RefreshOutcomes :
        LET a == make_request_attempt("POST", o, rest_requests_attempted,
                                      quota_percent_total, quota_percent_per_run)
            counted == a.check # "skipped"
        IN  /\ timers' = [timers EXCEPT ![i] = IF counted THEN "counting" ELSE "finally"]
            /\ tlogin' = [tlogin EXCEPT ![i] =
                  IF counted
                  THEN [NoTimerLogin EXCEPT !.o = o, !.loaded = rest_requests_attempted]
                  ELSE NoTimerLogin]
            /\ access_token' = IF ~counted /\ a.exc = NoException THEN i
                               ELSE access_token
            /\ rhist' = [rhist EXCEPT !.counted = IF counted THEN @ + 1 ELSE @]
    /\ UNCHANGED <<quota_percent_total, quota_percent_per_run,
                   rest_requests_attempted, rpc, call, exc, exit_code>>
    /\ UNCHANGED <<mpc, main_exit, mreq, login_timer>>
    /\ UNCHANGED <<syncvars, callvars>>

\* _make_request on the thread of timer i: the += stores the value it
\* loaded plus one, whatever another thread has stored meanwhile.
TimerCount(i) ==
    /\ Alive
    /\ timers[i] = "counting"
    /\ rest_requests_attempted' = tlogin[i].loaded + 1
    /\ timers' = [timers EXCEPT ![i] = "checking"]
    /\ UNCHANGED <<quota_percent_total, quota_percent_per_run, rpc, call, exc,
                   exit_code, rhist>>
    /\ UNCHANGED <<mpc, main_exit, tlogin, mreq, login_timer, access_token>>
    /\ UNCHANGED <<syncvars, callvars>>

\* _make_request on the thread of timer i: check_rest_quota_usage, with the
\* counter as it is now.  When it returns, login sets access_token; when it
\* raises, login wraps the SymonException in Exception, which ends this
\* thread only, after the finally block.
TimerCheck(i) ==
    /\ Alive
    /\ timers[i] = "checking"
    /\ LET res == check_rest_quota_usage(tlogin[i].o.headers, rest_requests_attempted,
                                         quota_percent_total, quota_percent_per_run)
       IN  /\ tlogin' = [tlogin EXCEPT ![i] = NoTimerLogin]
           /\ access_token' = IF res = "none" THEN i ELSE access_token
           /\ rhist' = [rhist EXCEPT !.refresh_tripped = @ \/ res # "none"]
    /\ timers' = [timers EXCEPT ![i] = "finally"]
    /\ UNCHANGED <<quota_percent_total, quota_percent_per_run,
                   rest_requests_attempted, rpc, call, exc, exit_code>>
    /\ UNCHANGED <<mpc, main_exit, mreq, login_timer>>
    /\ UNCHANGED <<syncvars, callvars>>

\* login's finally block on the thread of timer i:
\* self.login_timer = threading.Timer(...)
TimerCreate(i) ==
    /\ Alive
    /\ timers[i] = "finally"
    /\ timers' = Append([timers EXCEPT ![i] = "starting"], "created")
    /\ tlogin' = Append(tlogin, NoTimerLogin)
    /\ login_timer' = Len(timers) + 1
    /\ UNCHANGED <<mpc, main_exit, mreq, access_token>>
    /\ UNCHANGED <<syncvars, reqvars, callvars>>

\* login's finally block on the thread of timer i: self.login_timer.start(),
\* after which the thread ends.
TimerStart(i) ==
    /\ Alive
    /\ timers[i] = "starting"
    /\ timers' = [timers EXCEPT ![i] = "done", ![login_timer] = start(@)]
    /\ UNCHANGED <<mpc, main_exit, tlogin, mreq, login_timer, access_token>>
    /\ UNCHANGED <<syncvars, reqvars, callvars>>

NextTimer ==
    \/ MainLogin
    \/ MainSend
    \/ MainRequest
    \/ MainCount
    \/ MainQuotaCheck
    \/ MainRun
    \/ MainCheck
    \/ MainCancel
    \/ \E i \in DOMAIN timers : TimerFire(i)
    \/ \E i \in DOMAIN timers : TimerLogin(i)
    \/ \E i \in DOMAIN timers : TimerCount(i)
    \/ \E i \in DOMAIN timers : TimerCheck(i)
    \/ \E i \in DOMAIN timers : TimerCreate(i)
    \/ \E i \in DOMAIN timers : TimerStart(i)

TimerSpec == InitTimer /\ [][NextTimer]_vars

\* The request layer: the calls of the main thread, every attempt a step,
\* in a run that ends before REFRESH_TOKEN_EXPIRATION_PERIOD has passed:
\* the timer login starts is cancelled before it fires.  TimerSpec has the
\* calls of the main thread together with the timer threads.
NextRequest ==
    \/ Login
    \/ CallBegin
    \/ Attempt
    \/ Unwind
    \/ RunEnd

RequestSpec == InitRequest /\ [][NextRequest]_vars

\* ------------------------------------------------- sync_stream: API errors
\* Texts: the empty string and a non-empty one (None and a missing key are
\* Null and Absent).
EmptyText == 0
SomeText == 1
TruthyText(x) == Truthy(x) /\ x # EmptyText
\* Python's "a or b" on texts.
OrText(a, b) == IF TruthyText(a) THEN a ELSE b

\* The body of an error response: text that is not JSON, or a JSON value: a
\* scalar, an object with any of the four keys sync_stream reads, or a list.
NotJson == [kind |-> "text"]
JsonScalar == [kind |-> "scalar"]
JsonObject(ec, er, em, m) ==
    [kind |-> "object", exceptionCode |-> ec, errorCode |-> er,
     exceptionMessage |-> em, message |-> m]
JsonList(items) == [kind |-> "list", items |-> items]
KeyValues == {Absent, Null, EmptyText, SomeText}
JsonObjects ==
    {JsonObject(ec, er, em, m) : ec \in KeyValues, er \in KeyValues,
                                 em \in KeyValues, m \in KeyValues}
Bodies ==
    {NotJson, JsonScalar, JsonList(<<>>), JsonList(<<JsonScalar>>)}
    \cup JsonObjects \cup {JsonList(<<o>>) : o \in JsonObjects}

\* A RequestException: ex.response is None, or a response with a body.
NoResponse == [kind |-> "none"]
RequestExceptions == {[response |-> b] : b \in Bodies \cup {NoResponse}}

\* The try block of sync_stream's RequestException handler: the pair
\* <<code, message>>, both None when anything in the block raises.
parse_error(body) ==
    IF body.kind = "text" THEN <<Null, Null>>
    ELSE LET resp_json ==
                 IF body.kind = "list"
                 THEN IF body.items = <<>> THEN NotJson ELSE body.items[1]
                 ELSE body
         IN  IF resp_json.kind # "object" THEN <<Null, Null>>
             ELSE <<OrText(Get(resp_json.exceptionCode), Get(resp_json.errorCode)),
                    OrText(Get(resp_json.exceptionMessage), Get(resp_json.message))>>

\* if code is not None and message is not None
is_classified_either(cm) == cm[1] # Null \/ cm[2] # Null
is_classified(cm) == cm[1] # Null /\ cm[2] # Null

\* sync_stream's handler of a RequestException ex: what it raises.
sync_stream_request_error(ex) ==
    IF ex.response # NoResponse
    THEN IF is_classified(parse_error(ex.response))
         THEN [class |-> "SymonException", code |-> "salesforce.SalesforceApiError",
               reraised |-> FALSE]
         ELSE [class |-> "Exception", code |-> "none", reraised |-> FALSE]
    ELSE [class |-> "RequestException", code |-> "none", reraised |-> TRUE]

\* ------------------------------------------------------- schema discovery
STRING_TYPES ==
    {"id", "string", "picklist", "textarea", "phone", "url", "reference",
     "multipicklist", "combobox", "encryptedstring", "email", "complexvalue",
     "masterrecord", "datacategorygroupreference"}
NUMBER_TYPES == {"double"}
NUMBER_OR_STRING_TYPES == {"currency"}
DATE_TYPES == {"datetime", "date"}
BINARY_TYPES_none == {}
BINARY_TYPES == {"base64", "byte"}
LOOSE_TYPES == {"anyType", "calculated"}

\* A property schema: its 'type' (<<>>: no type), its 'format' and whether
\* it has 'properties'.
PropertySchema(ty, format, props) == [type |-> ty, format |-> format, properties |-> props]
NoSchema == PropertySchema(<<>>, "none", FALSE)

\* field_to_property_schema(field, mdata, source_type, is_report), with
\* inclusion the 'inclusion' mdata holds for the field: the exception raised
\* ("none": none), the property schema and the field's 'inclusion' in the
\* mdata returned.
field_to_property_schema(field, inclusion, source_type, is_report) ==
    LET field_name == field.name
        sf_type == field.type
        done(schema, incl) == [exc |-> "none", schema |-> schema, inclusion |-> incl]
        typed ==
            CASE sf_type \in STRING_TYPES -> PropertySchema(<<"string">>, "none", FALSE)
              [] sf_type \in DATE_TYPES ->
                    PropertySchema(<<"string", "null">>, "date-time", FALSE)
              [] sf_type = "boolean" -> PropertySchema(<<"boolean">>, "none", FALSE)
              [] sf_type \in NUMBER_OR_STRING_TYPES ->
                    PropertySchema(<<"number", "string", "null">>, "none", FALSE)
              [] sf_type \in NUMBER_TYPES -> PropertySchema(<<"number">>, "none", FALSE)
              [] sf_type = "percent" ->
                    PropertySchema(IF is_report THEN <<"string">> ELSE <<"number">>,
                                   "none", FALSE)
              [] sf_type = "address" -> PropertySchema(<<"object">>, "none", TRUE)
              [] sf_type \in {"int", "long"} -> PropertySchema(<<"integer">>, "none", FALSE)
              [] sf_type = "time" -> PropertySchema(<<"string">>, "none", FALSE)
              [] sf_type = "location" ->
                    PropertySchema(<<"number", "object", "null">>, "none", TRUE)
              [] sf_type = "json" -> PropertySchema(<<"string">>, "none", FALSE)
              [] OTHER -> NoSchema
    IN  IF typed # NoSchema
        THEN \* The nillable field cannot be trusted
             IF field_name # "Id" /\ sf_type # "location"
                /\ sf_type \notin DATE_TYPES /\ sf_type \notin NUMBER_OR_STRING_TYPES
             THEN done([typed EXCEPT !.type = <<"null">> \o @], inclusion)
             ELSE done(typed, inclusion)
        ELSE IF sf_type \in LOOSE_TYPES THEN done(NoSchema, inclusion)
        ELSE IF sf_type \in BINARY_TYPES THEN done(NoSchema, "unsupported")
        ELSE [exc |-> "TapSalesforceException", schema |-> NoSchema,
              inclusion |-> inclusion]

\* create_property_schema(field, mdata, source_type)
create_property_schema(field, source_type) ==
    field_to_property_schema(field,
        IF field.name = "Id" THEN "automatic" ELSE "available", source_type, FALSE)

FORCED_FULL_TABLE ==
    {"BackgroundOperationResult", "LoginEvent", "LightningUriEvent", "UriEvent",
     "LogoutEvent", "ReportEvent"}

\* get_replication_key(sobject_name, fields): <<>> for None.
get_replication_key(sobject_name, fields) ==
    LET fields_list == {fields[i].name : i \in DOMAIN fields}
    IN  IF sobject_name \in FORCED_FULL_TABLE THEN <<>>
        ELSE IF "SystemModstamp" \in fields_list THEN <<"SystemModstamp">>
        ELSE IF "LastModifiedDate" \in fields_list THEN <<"LastModifiedDate">>
        ELSE IF "CreatedDate" \in fields_list THEN <<"CreatedDate">>
        ELSE IF "LoginTime" \in fields_list /\ sobject_name = "LoginHistory"
        THEN <<"LoginTime">>
        ELSE <<>>

UNSUPPORTED_BULK_API_SALESFORCE_OBJECTS ==
    {"AssetTokenEvent", "AttachedContentNote", "EventWhoRelation",
     "QuoteTemplateRichTextData", "TaskWhoRelation", "SolutionStatus",
     "ContractStatus", "RecentlyViewed", "DeclinedEventRelation",
     "AcceptedEventRelation", "TaskStatus", "PartnerRole", "TaskPriority",
     "CaseStatus", "UndecidedEventRelation", "OrderStatus"}
QUERY_RESTRICTED_SALESFORCE_OBJECTS ==
    {"Announcement", "ContentDocumentLink", "CollaborationGroupRecord", "Vote",
     "IdeaComment", "FieldDefinition", "PlatformAction", "UserEntityAccess",
     "RelationshipInfo", "ContentFolderMember", "ContentFolderItem",
     "SearchLayout", "SiteDetail", "EntityParticle", "OwnerChangeOptionInfo",
     "DataStatistics", "UserFieldAccess", "PicklistValueInfo",
     "RelationshipDomain", "FlexQueueItem", "NetworkUserHistoryRecent",
     "FieldHistoryArchive", "RecordActionHistory", "FlowVersionView",
     "FlowVariableView", "AppTabMember", "ColorDefinition", "IconDefinition"}
QUERY_INCOMPATIBLE_SALESFORCE_OBJECTS ==
    {"DataType", "ListViewChartInstance", "FeedLike", "OutgoingEmail",
     "OutgoingEmailRelation", "FeedSignal", "ActivityHistory", "EmailStatus",
     "UserRecordAccess", "Name", "AggregateResult", "OpenActivity",
     "ProcessInstanceHistory", "OwnedContentDocument", "FolderedContentDocument",
     "FeedTrackedChange", "CombinedAttachment", "AttachedContentDocument",
     "ContentBody", "NoteAndAttachment", "LookedUpFromActivity",
     "AttachedContentNote", "QuoteTemplateRichTextData"}

\* Salesforce.get_blacklisted_objects(): the set, or the exception raised
\* for an api_type that is neither BULK nor REST.
get_blacklisted_objects(api_type) ==
    IF api_type = "BULK"
    THEN [exc |-> "none",
          value |-> UNSUPPORTED_BULK_API_SALESFORCE_OBJECTS
                    \cup QUERY_RESTRICTED_SALESFORCE_OBJECTS
                    \cup QUERY_INCOMPATIBLE_SALESFORCE_OBJECTS]
    ELSE IF api_type = "REST"
    THEN [exc |-> "none",
          value |-> QUERY_RESTRICTED_SALESFORCE_OBJECTS
                    \cup QUERY_INCOMPATIBLE_SALESFORCE_OBJECTS]
    ELSE [exc |-> "TapSalesforceException", value |-> {}]

\* The keys of Salesforce.get_blacklisted_fields(), for BULK and REST.
get_blacklisted_fields(api_type) ==
    IF api_type = "BULK" THEN {<<"EntityDefinition", "RecordTypesSupported">>} ELSE {}

\* The object names of the inputs: a stem, or a stem with "ChangeEvent"
\* after it.
Stems ==
    {"", "Account", "Announcement", "AssetTokenEvent", "EntityDefinition",
     "LoginEvent", "LoginHistory"}
\* sobject_name.endswith(suffix), for these names.
endswith(sobject_name, suffix) == \E stem \in Stems : sobject_name = stem \o suffix

\* The result of do_discover_object: the exception that leaves it ("none":
\* none) and what raised it, and of the entry it writes the names in
\* properties, each field's 'inclusion' ("none": the field has no
\* metadata) and valid-replication-keys (<<>>: none, the entry has
\* forced-replication-method FULL_TABLE); attempted is
\* sf.rest_requests_attempted after the call.
NoDiscovery(fields, n) ==
    [exc |-> "none", why |-> "none", properties |-> {},
     inclusion |-> [name \in {fields[i].name : i \in DOMAIN fields} |-> "none"],
     replication_key |-> <<>>, attempted |-> n]
\* The exception of class c leaves do_discover_object: nothing is written.
NotDiscovered(fields, n, c, why) == [NoDiscovery(fields, n) EXCEPT !.exc = c, !.why = why]

\* do_discover_object's loop over the fields from field i on: acc has the
\* exception raised, properties, the inclusions, found_id_field and the
\* names in unsupported_fields.
RECURSIVE discover_fields(_, _, _, _, _)
discover_fields(fields, sobject_name, api_type, i, acc) ==
    IF acc.exc # "none" \/ i > Len(fields) THEN acc
    ELSE LET f == fields[i]
             field_name == f.name
             r == create_property_schema(f, "object")
             found == [acc EXCEPT !.found_id_field = @ \/ field_name = "Id"]
         IN  IF r.exc # "none" THEN [acc EXCEPT !.exc = r.exc]
             ELSE IF f.type \in {"address", "location"} /\ api_type = "BULK"
             THEN discover_fields(fields, sobject_name, api_type, i + 1,
                      [found EXCEPT !.inclusion[field_name] = "none"])
             ELSE discover_fields(fields, sobject_name, api_type, i + 1,
                      [found EXCEPT
                          !.unsupported_fields =
                              IF f.type = "json"
                                 \/ <<sobject_name, field_name>>
                                        \in get_blacklisted_fields(api_type)
                              THEN @ \cup {field_name} ELSE @,
                          !.inclusion[field_name] = r.inclusion,
                          !.properties = @ \cup {field_name}])

\* do_discover_object(sf), with sf.rest_requests_attempted = n and the
\* quota percentages q and p.  sf has api_type, object_name, the answer of
\* Bulk(sf).has_permissions(), and for sf.describe() the outcome of the
\* last attempt of its _make_request("GET") and the fields of the
\* description.
do_discover_object(sf, n, q, p) ==
    LET fields == sf.fields
        sobject_name == sf.object_name
        blacklisted == get_blacklisted_objects(sf.api_type)
        describe == make_request_attempt("GET", sf.describe, n, q, p)
        rkey == get_replication_key(sobject_name, fields)
        loop == discover_fields(fields, sobject_name, sf.api_type, 1,
                    [exc |-> "none", properties |-> {},
                     inclusion |-> NoDiscovery(fields, n).inclusion,
                     found_id_field |-> FALSE, unsupported_fields |-> {}])
    IN  IF sf.api_type = "BULK" /\ ~sf.has_permissions
        THEN NotDiscovered(fields, n, "SymonException", "salesforce.BulkApiDisabled")
        ELSE IF blacklisted.exc # "none"
        THEN NotDiscovered(fields, n, blacklisted.exc, "api_type")
        ELSE IF sobject_name \in blacklisted.value \/ endswith(sobject_name, "ChangeEvent")
        THEN NotDiscovered(fields, n, "Exception", "not supported")
        ELSE IF describe.exc # NoException
        THEN NotDiscovered(fields, describe.attempted, describe.exc.class,
                           IF IsQuota(describe.exc) THEN describe.exc.why ELSE "describe")
        ELSE IF loop.exc # "none"
        THEN NotDiscovered(fields, describe.attempted, loop.exc, "unsupported type")
        ELSE IF ~loop.found_id_field
        THEN NotDiscovered(fields, describe.attempted, "Exception", "no Id field")
        ELSE [exc |-> "none", why |-> "none",
              properties |-> loop.properties,
              inclusion |->
                  [name \in DOMAIN loop.inclusion |->
                      IF name \in loop.unsupported_fields THEN "unsupported"
                      ELSE IF rkey = <<name>> THEN "automatic"
                      ELSE loop.inclusion[name]],
              replication_key |-> rkey,
              attempted |-> describe.attempted]

\* Field types Salesforce describes: every type the tap maps, and one it
\* does not.
MappedTypes ==
    STRING_TYPES \cup NUMBER_TYPES \cup NUMBER_OR_STRING_TYPES \cup DATE_TYPES
    \cup {"boolean", "percent", "address", "int", "long", "time", "location", "json"}
FieldTypes == MappedTypes \cup LOOSE_TYPES \cup BINARY_TYPES \cup {"unmapped"}
Field(n, ty) == [name |-> n, type |-> ty]
\* Field lists of an object: the Id and two more fields; lists without Id;
\* lists with the fields get_replication_key looks for, and with the field
\* the Bulk API does not support.
DiscoveryTypes == {"string", "base64", "address", "json", "anyType", "unmapped"}
ReplicationKeys == {"SystemModstamp", "LastModifiedDate", "CreatedDate", "LoginTime"}
FieldLists ==
    {<<Field("Id", "id"), Field("A", a), Field("B", b)>> :
        a \in DiscoveryTypes, b \in DiscoveryTypes}
    \cup {<<>>, <<Field("A", "string")>>, <<Field("A", "string"), Field("B", "string")>>,
           <<Field("A", "unmapped")>>, <<Field("SystemModstamp", "datetime")>>}
    \cup {<<Field("Id", "id"), Field(k, "datetime")>> : k \in ReplicationKeys}
    \cup {<<Field("CreatedDate", "datetime"), Field("Id", "id"), Field(k, "datetime")>> :
            k \in ReplicationKeys \ {"CreatedDate"}}
    \cup {<<Field("Id", "id"), Field("RecordTypesSupported", "string")>>,
           <<Field("Id", "id"), Field("SystemModstamp", "json")>>}
\* The objects discovery is asked for: one that is supported, one whose name
\* ends with ChangeEvent, one no API supports, one the Bulk API does not
\* support, the one with a blacklisted field, one in FORCED_FULL_TABLE and
\* LoginHistory.
ObjectNames == (Stems \ {""}) \cup {"Account" \o "ChangeEvent"}
\* The outcomes of the last attempt of describe's request.
DescribeOutcomes ==
    {ConnectionFailure("Timeout"), Response(FALSE, NoHeader)}
    \cup {Response(TRUE, h) : h \in {NoHeader, UsageHeader(1, 4), UsageHeader(9, 10)}}
\* sf.rest_requests_attempted when do_discover is called: whether login's
\* response was counted.
LoginCounts == {0, 1}
\* The answers of Bulk(sf).has_permissions().
HasPermissionsAnswers == BOOLEAN
DiscoverCalls ==
    {[api_type |-> a, object_name |-> o, has_permissions |-> hp, describe |-> d,
      fields |-> fs] :
        a \in {"BULK", "REST", "SOAP"}, o \in ObjectNames,
        hp \in HasPermissionsAnswers,
        d \in DescribeOutcomes, fs \in FieldLists}

\* ---------------------------------------------------------------- filters
\* The result of a call: a value returned (<<>>: None, <<s>>: the text s)
\* or the class of the exception raised.
Returned(v) == [exc |-> "none", value |-> v]
Raised(c) == [exc |-> c, value |-> <<>>]
None == <<>>
Text(s) == <<s>>

\* sep.join(texts)
RECURSIVE Join(_, _)
Join(texts, sep) ==
    IF texts = <<>> THEN ""
    ELSE IF Len(texts) = 1 THEN texts[1]
    ELSE texts[1] \o sep \o Join(Tail(texts), sep)

\* Operands, statements and groups of a filter tree.
Column(n) == [operandType |-> "column", name |-> n, value |-> "", litType |-> "none"]
Literal(v, lt) == [operandType |-> "literal", name |-> "", value |-> v, litType |-> lt]
Statement(lhs, op, rhs) ==
    [filterType |-> "statement", lhs |-> lhs, op |-> op, rhs |-> rhs]
Group(op, filters) == [filterType |-> "group", op |-> op, filters |-> filters]

\* filter_op_sql: the operator table.
ops ==
    [less_than |-> "<", less_than_equals |-> "<=", equals |-> "=",
     not_equals |-> "!=", greater_than_equals |-> ">=", greater_than |-> ">",
     is_null |-> "= null", is_not_null |-> "!= null", starts_with |-> "LIKE",
     ends_with |-> "LIKE", contains |-> "LIKE", not_contains |-> "NOT LIKE"]
\* filter_op_sql(op): ops[op], a KeyError for an op that is not in the table.
filter_op_sql(op) ==
    IF op \in DOMAIN ops THEN Returned(Text(ops[op])) ELSE Raised("KeyError")

\* filter_operand_sql(operand)
filter_operand_sql(operand) ==
    IF operand.operandType = "column" THEN operand.name ELSE operand.value

\* source_col_types.get(name) for the columns of the stream ("none": None).
source_col_types(name) ==
    CASE name = "N" -> "int"
      [] name = "D" -> "datetime"
      [] name = "A" -> "string"
      [] OTHER -> "none"
\* datetime.fromisoformat(s).replace(tzinfo=timezone.utc).isoformat()
\* .replace('+00:00', 'Z') for the date literals of the inputs.
utc_isoformat(s) ==
    CASE s = "2020-01-02" -> "2020-01-02T00:00:00Z"
      [] s = "2020-01-02T03:04:05" -> "2020-01-02T03:04:05Z"
\* str(int(float(s))) for the number literals of the inputs.
int_of_float(s) ==
    CASE s = "1.5" -> "1"
      [] s = "2" -> "2"
      [] s = "-0.5" -> "0"

\* filter_statement_sql(statement, source_col_types)
filter_statement_sql(statement) ==
    LET lhs_sql == filter_operand_sql(statement.lhs)
        op == filter_op_sql(statement.op)
        op_sql == op.value[1]
    IN  IF op.exc # "none" THEN op
        ELSE IF statement.rhs = <<>>
        THEN Returned(Text("(" \o lhs_sql \o " " \o op_sql \o ")"))
        ELSE LET rhs == statement.rhs[1]
                 rhs_sql == filter_operand_sql(rhs)
                 plain(r) == "(" \o lhs_sql \o " " \o op_sql \o " " \o r \o ")"
                 quoted(r) == plain("'" \o r \o "'")
             IN  Returned(Text(
                   CASE rhs.litType = "date" ->
                          plain(IF source_col_types(lhs_sql) = "datetime"
                                THEN utc_isoformat(rhs_sql) ELSE rhs_sql)
                     [] rhs.litType = "number" ->
                          plain(IF source_col_types(lhs_sql) \in {"int", "long"}
                                THEN int_of_float(rhs_sql) ELSE rhs_sql)
                     [] rhs.litType = "boolean" -> plain(rhs_sql)
                     [] OTHER ->
                          IF statement.op = "starts_with" THEN quoted(rhs_sql \o "%")
                          ELSE IF statement.op = "ends_with" THEN quoted("%" \o rhs_sql)
                          ELSE IF statement.op \in {"contains", "not_contains"}
                          THEN quoted("%" \o rhs_sql \o "%")
                          ELSE quoted(rhs_sql)))

\* filter_sql(filter, source_col_types); group_filters_sql is the loop of
\* its group branch from child i on, with acc the list built so far.
RECURSIVE filter_sql(_)
RECURSIVE group_filters_sql(_, _, _)
group_filters_sql(filters, i, acc) ==
    IF i > Len(filters) THEN Returned(acc)
    ELSE LET child_sql == filter_sql(filters[i])
         IN  IF child_sql.exc # "none" THEN child_sql
             ELSE group_filters_sql(filters, i + 1,
                      IF child_sql.value # None THEN acc \o child_sql.value ELSE acc)
filter_sql(filter) ==
    IF filter.filterType = "statement" THEN filter_statement_sql(filter)
    ELSE LET children == group_filters_sql(filter.filters, 1, <<>>)
         IN  IF children.exc # "none" THEN children
             ELSE IF Len(children.value) > 0
             THEN Returned(Text("(" \o Join(children.value, " " \o filter.op \o " ") \o ")"))
             ELSE Returned(None)

\* ----------------------------------------------------- _build_query_string
\* where_clauses as _build_query_string builds it; an item is <<text>>, or
\* None when filter_sql returned None.  filters = <<>>: self.filters is
\* None; rkey (the replication key) and end_date: <<>> for None.
where_clauses_filter_first(selected_properties, rkey, extra, has_filters, start_date, end_date) ==
    (IF has_filters THEN <<extra>> ELSE <<>>)
    \o (IF \E i \in DOMAIN selected_properties : selected_properties[i] = "IsDeleted"
        THEN <<Text("IsDeleted = false")>> ELSE <<>>)
    \o (IF rkey # None
        THEN <<Text(rkey[1] \o " >= " \o start_date \o " ")>>
             \o (IF end_date # None
                 THEN <<Text(rkey[1] \o " < " \o end_date[1])>> ELSE <<>>)
        ELSE <<>>)
where_clauses(selected_properties, rkey, extra, has_filters, start_date, end_date) ==
    (IF \E i \in DOMAIN selected_properties : selected_properties[i] = "IsDeleted"
     THEN <<Text("IsDeleted = false")>> ELSE <<>>)
    \o (IF has_filters THEN <<extra>> ELSE <<>>)
    \o (IF rkey # None
        THEN <<Text(rkey[1] \o " >= " \o start_date \o " ")>>
             \o (IF end_date # None
                 THEN <<Text(rkey[1] \o " < " \o end_date[1])>> ELSE <<>>)
        ELSE <<>>)

\* The texts of a list of clauses.
RECURSIVE Texts(_)
Texts(clauses) ==
    IF clauses = <<>> THEN <<>> ELSE <<Head(clauses)[1]>> \o Texts(Tail(clauses))

\* _build_query_string(catalog_entry, start_date, end_date, order_by_clause)
\* for a stream with the given selected properties and replication key.
build_query_string(stream, selected_properties, rkey, filters, start_date, end_date, order_by_clause) ==
    LET query == "SELECT " \o Join(selected_properties, ",") \o " FROM " \o stream
        extra == IF filters # <<>> THEN filter_sql(filters[1]) ELSE Returned(None)
        clauses == where_clauses(selected_properties, rkey, extra.value,
                                 filters # <<>>, start_date, end_date)
        order_by == IF rkey # None /\ order_by_clause
                    THEN " ORDER BY " \o rkey[1] \o " ASC" ELSE ""
    IN  IF extra.exc # "none" THEN extra
        ELSE IF \E i \in DOMAIN clauses : clauses[i] = None
        THEN \* ' AND '.join of a list that holds None
             Raised("TypeError")
        ELSE Returned(Text(
                 query
                 \o (IF Len(clauses) > 0
                     THEN " WHERE " \o Join(Texts(clauses), " AND ") ELSE "")
                 \o order_by))

\* Filter trees: statements, groups of statements, groups of those.
S_eq == Statement(Column("A"), "equals", <<Literal("x", "none")>>)
S_null == Statement(Column("A"), "is_null", <<>>)
S_between == Statement(Column("A"), "between", <<Literal("x", "none")>>)
Statements ==
    {S_eq, S_null, S_between,
     Statement(Column("A"), "starts_with", <<Literal("x", "none")>>),
     Statement(Column("A"), "ends_with", <<Literal("x", "none")>>),
     Statement(Column("A"), "not_contains", <<Literal("x", "none")>>),
     Statement(Column("A"), "equals", <<Literal("true", "boolean")>>),
     Statement(Column("N"), "greater_than", <<Literal("1.5", "number")>>),
     Statement(Column("A"), "less_than", <<Literal("1.5", "number")>>),
     Statement(Column("D"), "less_than", <<Literal("2020-01-02", "date")>>),
     Statement(Column("E"), "less_than", <<Literal("2020-01-02", "date")>>)}
UpTo2(S) == {<<>>} \cup {<<a>> : a \in S} \cup {<<a, b>> : a \in S, b \in S}
Groups1 == {Group("OR", fs) : fs \in UpTo2({S_eq, S_null, S_between})}
Groups2 ==
    {Group(op, fs) : op \in {"AND", "OR"},
                     fs \in UpTo2({S_eq, S_null, S_between} \cup Groups1)}
Filters == Statements \cup Groups1 \cup Groups2

\* Calls of _build_query_string.
QueryFilters ==
    {<<>>, <<S_eq>>, <<S_between>>, <<Group("AND", <<S_eq, S_null>>)>>,
     <<Group("AND", <<>>)>>, <<Group("OR", <<Group("OR", <<>>)>>)>>,
     <<Group("AND", <<Group("OR", <<>>), S_eq>>)>>}
QueryCalls ==
    {[stream |-> "Account", selected_properties |-> sel, replication_key |-> rk,
      filters |-> f, start_date |-> "2020-01-01T00:00:00Z", end_date |-> e,
      order_by_clause |-> o] :
        sel \in {<<"Id", "Name">>, <<"Id", "IsDeleted">>},
        rk \in {None, Text("SystemModstamp")},
        f \in QueryFilters,
        e \in {None, Text("2021-01-01T00:00:00Z")},
        o \in BOOLEAN}

\* ------------------------------------------------------ fix_record_anytype
\* Python values of a record: a str, an int, a float (by their repr), a
\* bool or None.
StrValue(s) == [t |-> "str", v |-> s]
IntValue(s) == [t |-> "int", v |-> s]
FloatValue(s) == [t |-> "float", v |-> s]
BoolValue(b) == [t |-> "bool", v |-> IF b THEN "True" ELSE "False"]
NoneValue == [t |-> "None", v |-> "None"]

\* int(s) and float(s) for the texts of the inputs: <<>> when the
\* conversion raises ValueError.
int_parse(s) ==
    CASE s = "5" -> <<IntValue("5")>>
      [] s = "-3" -> <<IntValue("-3")>>
      [] OTHER -> <<>>
float_parse(s) ==
    CASE s = "5" -> <<FloatValue("5.0")>>
      [] s = "-3" -> <<FloatValue("-3.0")>>
      [] s = "1.5" -> <<FloatValue("1.5")>>
      [] s = "1e3" -> <<FloatValue("1000.0")>>
      [] OTHER -> <<>>
\* try_cast(val, coercion): coercion(val), or val when it raises.
try_cast(val, coercion) ==
    LET r == IF coercion = "int" THEN int_parse(val.v) ELSE float_parse(val.v)
    IN  IF r # <<>> THEN r[1] ELSE val

\* The type names of a schema 'type' (the model holds a 'type' as the
\* sequence of its names, <<>> when the schema has no 'type').
TypeNames(typ) == {typ[i] : i \in DOMAIN typ}

\* str.lower() on the texts of the inputs.
str_lower(s) == IF s \in {"<NULL>", "<Null>"} THEN "<null>" ELSE s

\* A dict value of a record, by its keys.
DictValue(keys) == [t |-> "dict", v |-> keys]
BLACKLISTED_FIELDS == {"attributes"}
remove_blacklisted_fields(data) == DictValue(data.v \ BLACKLISTED_FIELDS)

\* transform_bulk_data_hook(data, typ, schema), with schema_type the 'type'
\* of schema: the value the Transformer goes on with.
transform_bulk_data_hook(data, schema_type) ==
    LET result0 == IF data.t = "dict" THEN remove_blacklisted_fields(data) ELSE data
        result1 == IF data.t = "str" /\ data.v = "0.0" /\ "integer" \in TypeNames(schema_type)
                   THEN StrValue("0") ELSE result0
    IN  IF data.t = "str" /\ data.v = "" /\ "null" \in TypeNames(schema_type)
        THEN NoneValue ELSE result1

dash_kept(v) == v
\* The '-' placeholder of a number field becomes the empty string.
dash_to_empty(v) == IF v # NoneValue /\ v.v = "-" THEN StrValue("") ELSE v

\* fix_record_anytype for one key of rec whose schema has the given 'type'
\* (<<>>: no type) and 'format': the value left in rec[k].
fix_record_anytype(v, typ, format) ==
    IF typ = <<>>
    THEN LET val1 == try_cast(v, "int")
             val2 == try_cast(v, "float")
             val3 == IF v.v \in {"true", "false"} THEN BoolValue(v.v = "true") ELSE val2
         IN  IF v.v = "" THEN NoneValue ELSE val3
    ELSE IF "number" \in TypeNames(typ)
    THEN dash_to_empty(v)
    ELSE IF format = "date-time"
    THEN IF v # NoneValue /\ str_lower(v.v) = "<null>" THEN StrValue("") ELSE v
    ELSE v

\* Values of a field in a source row, and the schemas of the field.
AnyTexts == {"5", "-3", "1.5", "1e3", "abc", "true", "false", ""}
FieldTexts == {"0.0", "0", "", "-", "abc", "<null>", "<NULL>", "<Null>", "2020-01-02"}
\* The 'type' and 'format' field_to_property_schema gives the fields of a
\* catalog: Id, text, date, number, integer and number-or-string fields.
FieldSchemas ==
    {[typ |-> <<"string">>, format |-> "none"],
     [typ |-> <<"null", "string">>, format |-> "none"],
     [typ |-> <<"string", "null">>, format |-> "date-time"],
     [typ |-> <<"null", "number">>, format |-> "none"],
     [typ |-> <<"null", "integer">>, format |-> "none"],
     [typ |-> <<"integer">>, format |-> "none"],
     [typ |-> <<"number", "string", "null">>, format |-> "none"]}
AnytypeCalls ==
    {[v |-> StrValue(s), typ |-> <<>>, format |-> "none"] : s \in AnyTexts}
    \cup {[v |-> x, typ |-> sc.typ, format |-> sc.format] :
              x \in {StrValue(s) : s \in FieldTexts} \cup {NoneValue}, sc \in FieldSchemas}
HookCalls ==
    {[data |-> StrValue(s), typ |-> sc.typ, format |-> sc.format] :
              s \in FieldTexts, sc \in FieldSchemas}
    \cup {[data |-> DictValue(k), typ |-> <<"object">>, format |-> "none"] :
              k \in {{"Id"}, {"attributes", "Id"}}}

\* ------------------------------------------- sync_stream: other exceptions
\* str(ex) of an exception, by what sync_stream's handler reads from it: the
\* text, the phrases of the handler the text contains, the words of the text
\* from "No such column" on, the groups of the match of "value of filter
\* criterion for field '(..)' must be of type (..)" (<<>>: no match) and the
\* group of the match of "\(<field> .* (.*?)\)" (<<>>: no match).
Message(text, phrases, words, criterion, operand) == [text |-> text, phrases |-> phrases, words |-> words, criterion |-> criterion, operand |-> operand]
QuotaPhrases ==
    {"total REST quota used across all Salesforce Applications",
     "Terminating replication due to allotted"}
TooLargePhrase == "OPERATION_TOO_LARGE: exceeded 100000 distinct who/what's"
InvalidFieldPhrases ==
    {"Failed to process query: INVALID_FIELD", "No such column", "on entity"}

\* word.replace("'", '"') on the words of the inputs.
requote(w) ==
    CASE w = "'Foo__c'" -> "\"Foo__c\""
      [] w = "'Account'." -> "\"Account\"."
      [] OTHER -> w
\* word[:-1] on the words of the inputs.
but_last(w) ==
    CASE w = "\"Account\"." -> "\"Account\""
      [] w = "entity" -> "entit"
      [] OTHER -> w

\* An exception that leaves sync_stream.
Raise(class, code, text, reraised) == [class |-> class, code |-> code, text |-> text, reraised |-> reraised]

\* sync_stream's handler "except Exception as ex" for an exception that is
\* no RequestException: what it raises.
sync_stream_error(ex, stream, source_type) ==
    LET message == ex.message
        words == message.words
        parsed == Len(words) >= 7
        column == IF parsed THEN requote(words[4]) ELSE ""
        entity == IF parsed THEN but_last(requote(words[7])) ELSE ""
    IN  IF \E phrase \in QuotaPhrases : phrase \in message.phrases
        THEN Raise(ex.class, ex.code, message.text, TRUE)
        ELSE IF TooLargePhrase \in message.phrases
        \* (the back quotes around View All Data are left out of the text)
        THEN Raise("SingerSyncError", "none",
                   "OPERATION_TOO_LARGE: exceeded 100000 distinct who/what's. "
                   \o "Consider asking your Salesforce System Administrator to provide you with the "
                   \o "View All Data profile permission. (Stream: " \o stream \o ")", FALSE)
        ELSE IF InvalidFieldPhrases \subseteq message.phrases /\ parsed
        THEN Raise("SymonException", "salesforce.InvalidField",
                   "We can't find " \o column \o " column on " \o entity \o " "
                   \o source_type \o ". Review the Field Level Permissions in Salesforce and try importing your data again.", FALSE)
        ELSE IF message.criterion # <<>>
        THEN IF message.operand # <<>>
             THEN Raise("SymonException", "salesforce.InvalidFilter",
                        "Invalid filter: Field " \o message.criterion[1] \o " filter value of "
                        \o message.operand[1] \o " does not match field type of "
                        \o message.criterion[2], FALSE)
             ELSE Raise("SymonException", "salesforce.InvalidFilter",
                        "Invalid filter: Value of filter criterion for field '"
                        \o message.criterion[1] \o "' is of invalid type", FALSE)
        ELSE Raise("Exception", "none", message.text \o ", (Stream: " \o stream \o ")", FALSE)

\* The messages of the exceptions an extraction raises: the two of
\* check_rest_quota_usage, the remote errors the handler knows, and others.
TotalQuotaMessage ==
    Message("Salesforce has reported 9/10 (90.00%) total REST quota used across all Salesforce Applications. Terminating replication to not continue past the configured percentage of 80% total quota.",
            {"total REST quota used across all Salesforce Applications"}, <<>>, <<>>, <<>>)
RunQuotaMessage ==
    Message("This replication job has made 3 REST requests (30.00% of total quota). Terminating replication due to allotted quota of 25% per replication.",
            {"Terminating replication due to allotted"}, <<>>, <<>>, <<>>)
TooLargeMessage ==
    Message("OPERATION_TOO_LARGE: exceeded 100000 distinct who/what's", {TooLargePhrase}, <<>>, <<>>, <<>>)
InvalidFieldMessage ==
    Message("Failed to process query: INVALID_FIELD: No such column 'Foo__c' on entity 'Account'. If you are attempting to use a custom field, be sure to append the '__c'",
            InvalidFieldPhrases,
            <<"No", "such", "column", "'Foo__c'", "on", "entity", "'Account'.", "If">>, <<>>, <<>>)
ShortInvalidFieldMessage ==
    Message("on entity: Failed to process query: INVALID_FIELD: No such column",
            InvalidFieldPhrases, <<"No", "such", "column">>, <<>>, <<>>)
FilterValueMessage ==
    Message("INVALID_QUERY_FILTER_OPERATOR: (Amount = abc) value of filter criterion for field 'Amount' must be of type double",
            {}, <<>>, <<"Amount", "double">>, <<"abc">>)
FilterTypeMessage ==
    Message("value of filter criterion for field 'Amount' must be of type double",
            {}, <<>>, <<"Amount", "double">>, <<>>)
OtherMessage == Message("Bulk job 7 failed", {}, <<>>, <<>>, <<>>)
Messages ==
    {TotalQuotaMessage, RunQuotaMessage, TooLargeMessage, InvalidFieldMessage,
     ShortInvalidFieldMessage, FilterValueMessage, FilterTypeMessage, OtherMessage}
\* The exceptions: a SymonException with its code, or an exception of
\* another class.
Exceptions ==
    {[class |-> "SymonException", code |-> c, message |-> msg] :
        c \in {"salesforce.SalesforceApiError", "salesforce.BulkJobFailed"}, msg \in Messages}
    \cup {[class |-> c, code |-> "none", message |-> msg] :
        c \in {"Exception", "TapSalesforceException"}, msg \in Messages}
ExceptionCalls ==
    {[ex |-> e, stream |-> "Account", source_type |-> st] :
        e \in Exceptions, st \in {"object", "report"}}

\* ------------------------------------------------------------ single calls
\* One call of a function of the tap on arguments drawn from its inputs.
Calls ==
    {<<"sync_stream", ex>> : ex \in RequestExceptions}
    \cup {<<"field_to_property_schema",
            [field |-> Field(n, ty), source_type |-> st, is_report |-> st = "report"]>> :
                n \in {"Id", "A"}, ty \in FieldTypes, st \in {"object", "report"}}
    \cup {<<"do_discover_object", sf>> : sf \in DiscoverCalls}
    \cup {<<"filter_sql", f>> : f \in Filters}
    \cup {<<"_build_query_string", q>> : q \in QueryCalls}
    \cup {<<"fix_record_anytype", c>> : c \in AnytypeCalls}
    \cup {<<"transform_bulk_data_hook", c>> : c \in HookCalls}
    \cup {<<"sync_stream: except Exception", c>> : c \in ExceptionCalls}

InitCall ==
    /\ OneRun
    /\ \E c \in Calls : fn = c[1] /\ arg = c[2]
    /\ ret = <<>>
    /\ RequestInit({<<DefaultQuotaPercentTotal, DefaultQuotaPercentPerRun>>}, "off",
                   IF fn = "do_discover_object" THEN LoginCounts ELSE {0})
    /\ NoTimers

\* The call returns or raises r.
Returns(r) ==
    /\ ret = <<>>
    /\ ret' = <<r>>
    /\ UNCHANGED <<fn, arg>>
    /\ UNCHANGED <<syncvars, reqvars, timervars>>

SyncStreamError == fn = "sync_stream" /\ Returns(sync_stream_request_error(arg))

FieldToPropertySchema ==
    /\ fn = "field_to_property_schema"
    /\ Returns(field_to_property_schema(arg.field,
                   IF arg.field.name = "Id" /\ ~arg.is_report
                   THEN "automatic" ELSE "available",
                   arg.source_type, arg.is_report))

\* do_discover_object returns or raises; describe's request is counted in
\* sf.rest_requests_attempted.
DoDiscoverObject ==
    /\ fn = "do_discover_object"
    /\ ret = <<>>
    /\ LET r == do_discover_object(arg, rest_requests_attempted, quota_percent_total,
                                   quota_percent_per_run)
       IN  /\ ret' = <<r>>
           /\ rest_requests_attempted' = r.attempted
    /\ UNCHANGED <<fn, arg>>
    /\ UNCHANGED <<quota_percent_total, quota_percent_per_run, rpc, call, exc,
                   exit_code, rhist>>
    /\ UNCHANGED <<syncvars, timervars>>

FilterSql == fn = "filter_sql" /\ Returns(filter_sql(arg))

BuildQueryString ==
    /\ fn = "_build_query_string"
    /\ Returns(build_query_string(arg.stream, arg.selected_properties,
                   arg.replication_key, arg.filters, arg.start_date,
                   arg.end_date, arg.order_by_clause))

FixRecordAnytype ==
    /\ fn = "fix_record_anytype"
    /\ Returns(fix_record_anytype(arg.v, arg.typ, arg.format))

TransformBulkDataHook ==
    /\ fn = "transform_bulk_data_hook"
    /\ Returns(transform_bulk_data_hook(arg.data, arg.typ))

SyncStreamException ==
    /\ fn = "sync_stream: except Exception"
    /\ Returns(sync_stream_error(arg.ex, arg.stream, arg.source_type))

NextCall ==
    \/ SyncStreamError
    \/ FieldToPropertySchema
    \/ DoDiscoverObject
    \/ FilterSql
    \/ BuildQueryString
    \/ FixRecordAnytype
    \/ TransformBulkDataHook
    \/ SyncStreamException

CallSpec == InitCall /\ [][NextCall]_vars

\* ================================================================ properties
\* The positions of out holding a message of type ty of stream s.
Msgs(ty, s) == {i \in DOMAIN out : out[i].type = ty /\ out[i].stream = s}
\* q is a prefix of the sequence r.
IsPrefix(q, r) == Len(q) <= Len(r) /\ \A i \in 1..Len(q) : q[i] = r[i]
ResumePcs == {"batch", "drain", "reconcile"}

\* C1: a resumed job drains exactly the batch ids listed in the BatchIDs the
\* run was started with, in that order and each once; a batch whose removal
\* from BatchIDs was flushed, in this run or an earlier one, is not drained
\* again.
C1_ResumeDrainsPersistedBatches ==
    /\ pc = "drain" => <<idx, cur_batch>> \notin hist.removed
    /\ pc \in ResumePcs /\ hist.resume.exists =>
          IsPrefix(hist.resume.drained, hist.raw0.bookmarks[idx].BatchIDs)
    /\ pc = "reconcile" /\ hist.resume.exists =>
          hist.resume.drained = hist.raw0.bookmarks[idx].BatchIDs

\* C1 witness: the second run drains batch 2 alone, batch 1 having been
\* removed and flushed by the interrupted first run.
C1_Witness ==
    /\ run = 2
    /\ pc = "drain"
    /\ cur_batch = 2
    /\ hist.resume.drained = <<2>>
    /\ <<idx, 1>> \in hist.removed
    /\ hist.raw0.bookmarks[idx].BatchIDs = <<2>>

\* C2 (as claimed): every JobHighestBookmarkSeen written by
\* resume_syncing_bulk_query or sync_records is at most the call's
\* start_time, whatever bookmark the call starts from.
C2_Original ==
    hist.written # Null => strptime_with_tz(hist.written) <= start_time

\* C2 (amended): a JobHighestBookmarkSeen written by sync_records is at most
\* start_time; one written by resume_syncing_bulk_query is at most
\* start_time when the bookmark the call started from is, and is that
\* starting bookmark otherwise: no record raises it above start_time.
C2_Amended ==
    hist.written # Null =>
        /\ hist.writer = "sync_records" =>
              strptime_with_tz(hist.written) <= start_time
        /\ hist.writer = "resume" /\ hist.start <= start_time =>
              strptime_with_tz(hist.written) <= start_time
        /\ hist.writer = "resume" /\ hist.start > start_time =>
              strptime_with_tz(hist.written) = hist.start

\* C2 witness: resume_syncing_bulk_query wrote a JobHighestBookmarkSeen not
\* later than start_time although a record later than start_time was seen.
C2_Witness ==
    /\ hist.writer = "resume"
    /\ hist.future
    /\ hist.resume.qualified
    /\ hist.start <= start_time
    /\ strptime_with_tz(hist.written) <= start_time

\* C3: after do_sync reconciled a resumed stream, its bookmark holds none of
\* JobID, BatchIDs, JobHighestBookmarkSeen, in memory and in the flushed
\* state, and a JobHighestBookmarkSeen that was set is the replication-key
\* bookmark.
C3_ReconcileClearsAndPromotes ==
    hist.rec.s # 0 =>
        \A st \in {state, persisted} :
            LET b == st.bookmarks[hist.rec.s]
            IN  /\ b.JobID = Absent
                /\ b.BatchIDs = AbsentIDs
                /\ b.JobHighestBookmarkSeen = Absent
                /\ Truthy(hist.rec.jhbs) => b.rk = hist.rec.jhbs

\* C3 witness: a JobHighestBookmarkSeen replaced a different, older
\* replication-key bookmark.
C3_Witness ==
    /\ hist.rec.s # 0
    /\ Truthy(hist.rec.jhbs)
    /\ Truthy(hist.rec.rk)
    /\ hist.rec.rk # hist.rec.jhbs
    /\ persisted.bookmarks[hist.rec.s].rk = hist.rec.jhbs

\* The value under the replication key of the stream do_sync reconciled last.
ReconciledRk == get_bookmark(state, hist.rec.s, "rk")
\* do_sync has reconciled the stream resume_syncing_bulk_query ran for last.
AfterReconcile == hist.rec.s # 0 /\ hist.resume.s = hist.rec.s

\* C4 (as claimed): when the resumed job no longer exists, or no record
\* advanced the bookmark, the replication-key bookmark after the reconcile
\* equals the one before the resume.
C4_Original ==
    AfterReconcile /\ (~hist.resume.exists \/ ~hist.resume.qualified) =>
        ReconciledRk = hist.resume.rk0

\* C4 (amended): a bookmark that existed is never replaced by null.  When
\* the job no longer exists the bookmark becomes the persisted
\* JobHighestBookmarkSeen, and stays what it was when there is none; when
\* the job was drained and no record advanced the bookmark, it becomes
\* strftime of the bookmark the resume started from (the persisted
\* JobHighestBookmarkSeen, else the bookmark before, else the start date).
C4_Amended ==
    AfterReconcile /\ (~hist.resume.exists \/ ~hist.resume.qualified) =>
        /\ Truthy(hist.resume.rk0) => Truthy(ReconciledRk)
        /\ ~hist.resume.exists =>
              ReconciledRk = Or(hist.resume.jhbs0, hist.resume.rk0)
        /\ ~hist.resume.exists /\ ~Truthy(hist.resume.jhbs0) =>
              ReconciledRk = hist.resume.rk0
        /\ hist.resume.exists =>
              ReconciledRk =
                  strftime(strptime_with_tz(
                      Or(hist.resume.jhbs0,
                         Or(hist.resume.rk0, default_start_date))))

\* C4 witness: the job was gone, no JobHighestBookmarkSeen was persisted
\* and the bookmark that existed is still there.
C4_Witness ==
    /\ AfterReconcile
    /\ ~hist.resume.exists
    /\ ~Truthy(hist.resume.jhbs0)
    /\ Truthy(hist.resume.rk0)
    /\ persisted.bookmarks[hist.rec.s].rk = hist.resume.rk0

\* The job keys are gone from stream s's bookmark, in memory and flushed.
JobKeysGone(s) ==
    \A st \in {state, persisted} :
        /\ st.bookmarks[s].JobID = Absent
        /\ st.bookmarks[s].BatchIDs = AbsentIDs

\* C5 (as claimed): a stream whose persisted job no longer exists has, when
\* the run ends, lost its job keys and been extracted by a fresh query.
C5_Original ==
    pc = "done" => \A s \in hist.stale : JobKeysGone(s) /\ s \in hist.fresh

\* C5 (amended): the run goes on after a stale job: do_sync discards the
\* job keys and flushes, and the run neither writes a record of the stream
\* nor passes it to sync_stream; a later run, started from that state, does
\* not resume the stream again.
C5_Amended ==
    /\ \A s \in hist.stale :
        /\ Msgs("RECORD", s) = {}
        /\ s \notin hist.fresh
        /\ (pc = "reconcile" /\ idx = s) \/ JobKeysGone(s)
    /\ \A s \in hist.stalePrev :
        ~(idx = s /\ pc \in ResumePcs \cup {"resume"})

\* C5 witness: the run after the one that discarded the stale job extracts
\* the stream by a fresh query.
C5_Witness ==
    /\ run = 2
    /\ idx \in hist.stalePrev
    /\ pc = "records"
    /\ nrecs > 0

\* C6: a run started from a state whose current_stream names stream S
\* writes no message of a stream before S: its first message is S's schema.
C6_ResumesAtCurrentStream ==
    Truthy(hist.raw0.current_stream) =>
        \A i \in DOMAIN out : out[i].stream >= hist.raw0.current_stream

\* The activate-version messages of stream s: n of them, one before every
\* record when opening, and when closing one after every record.
Activations(s, n, opening, closing) ==
    LET avs == Msgs("ACTIVATE_VERSION", s)
        recs == Msgs("RECORD", s)
    IN  /\ Cardinality(avs) = n
        /\ opening => \E a \in avs : \A r \in recs : a < r
        /\ closing => \E a \in avs : \A r \in recs : a > r

\* C7: a finished run has written, for a selected stream without
\* replication key that had no bookmark in the persisted state, one
\* activate-version before its records and one after them, and left its
\* version null.
C7_FullTableFreshRun ==
    pc = "done" =>
        \A s \in Streams :
            stream_is_selected(s) /\ ~replication_key(s)
                /\ ~hist.raw0.bookmarks[s].entry =>
                    /\ Activations(s, 2, TRUE, TRUE)
                    /\ persisted.bookmarks[s].version = Null

\* Whether build_state keeps a bookmark entry for a stream without
\* replication key whose persisted bookmark is b.
KeepsEntry(s, b) ==
    \/ Truthy(b.JobID)
    \/ replication_method(s) = "FULL_TABLE" /\ Get(b.version) = Null
    \/ replication_method(s) = "INCREMENTAL" /\ Get(b.version) # Null

\* The selected streams without replication key that had a bookmark in the
\* persisted state and that the run passed to sync_stream.
RefreshedWithBookmark ==
    {s \in Streams :
        /\ stream_is_selected(s) /\ ~replication_key(s)
        /\ hist.raw0.bookmarks[s].entry
        /\ s \in hist.fresh}

\* C8 (as claimed): such a stream gets two activate-version messages and a
\* null version.
C8_Original ==
    pc = "done" =>
        \A s \in RefreshedWithBookmark :
            /\ Activations(s, 2, TRUE, TRUE)
            /\ persisted.bookmarks[s].version = Null

\* C8 (amended): such a stream ends with a null version and an
\* activate-version after its records; the one before its records is
\* written only when build_state kept no bookmark entry of the stream.
C8_Amended ==
    pc = "done" =>
        \A s \in RefreshedWithBookmark :
            /\ persisted.bookmarks[s].version = Null
            /\ IF KeepsEntry(s, hist.raw0.bookmarks[s])
               THEN Activations(s, 1, FALSE, TRUE)
               ELSE Activations(s, 2, TRUE, TRUE)

\* C8 witness: a stream with a persisted bookmark got both messages, with a
\* record between them.
C8_Witness ==
    /\ pc = "done"
    /\ \E s \in RefreshedWithBookmark :
        /\ Activations(s, 2, TRUE, TRUE)
        /\ Msgs("RECORD", s) # {}

\* The streams without replication key whose sync_records has ended.
Refreshed == {s \in Streams : ~replication_key(s) /\ s \in hist.fresh /\ idx > s}
\* The position of the last message of stream s.
LastOf(s) ==
    CHOOSE i \in DOMAIN out :
        out[i].stream = s /\ \A j \in DOMAIN out : out[j].stream = s => j <= i

\* C9 (as claimed): the closing activate-version carries a version newer
\* than the one on the stream's records and on the opening message.
C9_Original ==
    \A s \in Refreshed :
        /\ out[LastOf(s)].type = "ACTIVATE_VERSION"
        /\ \A j \in (Msgs("RECORD", s) \cup Msgs("ACTIVATE_VERSION", s))
                        \ {LastOf(s)} :
              out[LastOf(s)].version > out[j].version
        /\ persisted.bookmarks[s].version = Null

\* C9 (amended): the closing activate-version carries the version
\* sync_records minted before its loop, which is the version on every
\* record of the stream and not older than the opening message's; the
\* persisted version is null.
C9_Amended ==
    \A s \in Refreshed :
        /\ out[LastOf(s)].type = "ACTIVATE_VERSION"
        /\ \A j \in Msgs("RECORD", s) : out[j].version = out[LastOf(s)].version
        /\ \A j \in Msgs("ACTIVATE_VERSION", s) :
              out[j].version <= out[LastOf(s)].version
        /\ persisted.bookmarks[s].version = Null

\* C9 witness: records between an opening message with an older version
\* and the closing message.
C9_Witness ==
    \E s \in Refreshed :
        /\ Msgs("RECORD", s) # {}
        /\ \E j \in Msgs("ACTIVATE_VERSION", s) :
              out[j].version < out[LastOf(s)].version

\* C10: get_stream_version returns the bookmark's version when the stream
\* has a replication key and the version is not null, and the wall-clock
\* reading otherwise.
C10_GetStreamVersion ==
    hist.gsv.s # 0 =>
        hist.gsv.res = IF hist.gsv.key /\ hist.gsv.ver # Null
                       THEN hist.gsv.ver ELSE hist.gsv.now

\* C10 witness: a stream without replication key got a new version although
\* its bookmark held one.
C10_Witness ==
    /\ hist.gsv.s # 0
    /\ ~hist.gsv.key
    /\ hist.gsv.ver # Null
    /\ hist.gsv.res = hist.gsv.now
    /\ hist.gsv.res # hist.gsv.ver

\* The bookmark build_state made for stream s from the state the run was
\* started with.
BuiltEntry(s) == build_state(hist.raw0).bookmarks[s]

\* C11: on the non-resume path an activate-version message precedes the
\* stream's records exactly when the stream has a replication key or
\* build_state left it without bookmark entry; the message is written while
\* the bookmark is still as build_state left it, and the version it carries
\* is in the bookmark when sync_stream is called.
C11_ActivateThenVersion ==
    /\ pc \in {"sync", "records"} =>
          /\ (Msgs("ACTIVATE_VERSION", idx) # {})
                <=> (replication_key(idx) \/ ~BuiltEntry(idx).entry)
          /\ \A a \in Msgs("ACTIVATE_VERSION", idx) :
                \A r \in Msgs("RECORD", idx) : a < r
    /\ pc = "activate" =>
          /\ Msgs("ACTIVATE_VERSION", idx) # {}
          /\ state.bookmarks[idx] = BuiltEntry(idx)
    /\ pc = "sync" =>
          \A a \in Msgs("ACTIVATE_VERSION", idx) :
              state.bookmarks[idx].version = out[a].version

\* C11 witness: a stream without replication key and without bookmark got
\* the message, then its version, then a record.
C11_Witness ==
    /\ pc = "records"
    /\ nrecs > 0
    /\ ~replication_key(idx)
    /\ ~BuiltEntry(idx).entry
    /\ \E a \in Msgs("ACTIVATE_VERSION", idx) :
          /\ state.bookmarks[idx].version = out[a].version
          /\ \A r \in Msgs("RECORD", idx) : a < r

\* C12: without pk_chunking the replication-key bookmark during
\* sync_records is the one the call started with until a record's value is
\* written, and a record's value is written only when it is not later than
\* start_time; the flushed state holds the same bookmark.
C12_BookmarkWithinStartTime ==
    pc = "records" /\ ~pk_chunking =>
        /\ hist.bookmarked = Null =>
              get_bookmark(state, idx, "rk") = hist.rkstart
        /\ hist.bookmarked # Null =>
              /\ strptime_with_tz(hist.bookmarked) <= start_time
              /\ state.bookmarks[idx].rk = hist.bookmarked
              /\ persisted.bookmarks[idx].rk = hist.bookmarked

\* C12 witness: records on both sides of start_time were seen, and the
\* bookmark is a record's value not later than start_time.
C12_Witness ==
    /\ pc = "records"
    /\ ~pk_chunking
    /\ nrecs = 2
    /\ hist.future
    /\ hist.bookmarked # Null
    /\ state.bookmarks[idx].rk = hist.bookmarked
    /\ strptime_with_tz(hist.bookmarked) <= start_time

\* check_rest_quota_usage's test of the total limit on the usage header h:
\* the float (remaining/allotted)*100 is greater than quota_percent_total.
OverTotal(h) ==
    h.kind = "usage"
    /\ percent_used_exceeds(h.remaining, h.allotted, quota_percent_total)
\* The count of requests is greater than quota_percent_per_run*allotted/100.
OverRun(n, h) ==
    h.kind = "usage" /\ n * 100 > quota_percent_per_run * h.allotted
\* The last attempt got a response.
Responded == rhist.last.kind = "response"

\* C13 (as claimed): once a response's usage header was over a limit and
\* the quota condition was raised, on whichever thread, the run makes no
\* further remote call: the main thread sends no request afterwards.
C13_QuotaTripEndsRun == AnyTrip(rhist) => ~rhist.sent_after_trip

\* The last attempt ran the governor on a usage header.
Governed == Responded /\ rhist.check # "skipped" /\ rhist.last.headers.kind = "usage"

\* C14: when the governor's test of the total limit does not trip, it
\* raises for the per-run limit exactly when the count of requests is
\* greater than quota_percent_per_run * allotted / 100; when the test of
\* the total limit trips, it raises for the total limit whatever the
\* count; both raise a SymonException.
C14_PerRunLimit ==
    Governed =>
        /\ rhist.check # "total" =>
              (rhist.check = "per_run" <=> OverRun(rhist.seen, rhist.last.headers))
        /\ rhist.check = "total" <=> OverTotal(rhist.last.headers)
        /\ rhist.check # "none" /\ rpc = "raise" =>
              exc = Exception("SymonException", rhist.check)

\* C14 witness: with the default 25 percent and 10 allotted (2.5 requests)
\* the third counted request trips the per-run limit, the header being
\* within the total limit.
C14_Witness ==
    /\ Governed
    /\ quota_percent_per_run = DefaultQuotaPercentPerRun
    /\ rhist.last.headers.allotted = 10
    /\ rhist.seen = 3
    /\ ~OverTotal(rhist.last.headers)
    /\ rhist.check = "per_run"
    /\ rpc = "raise"

\* A step in which the main thread ended a call of _make_request, and one
\* in which a response without error status that carried the header came in.
MainCalled == rhist'.calls = rhist.calls + 1
ResponseCounted == rhist'.counted = rhist.counted + 1

\* C15 (as claimed): every call of _make_request has incremented
\* rest_requests_attempted, failed calls and responses without usage header
\* included.
C15_Original == rest_requests_attempted >= rhist.calls

\* What a step does to rest_requests_attempted.  On either thread a call
\* whose response is counted loads the counter, then stores the value it
\* loaded plus one, then runs the governor, which reads the counter as it is
\* then and leaves it alone; main_impl's login does the three in one step,
\* no timer existing yet.  Any other outcome of a call leaves the counter
\* alone and skips the governor.  The counter is never above the number of
\* counted responses.
CountedBeforeCheck ==
    /\ mpc = "login" /\ MainCalled /\ ResponseCounted =>
          /\ rest_requests_attempted' = rest_requests_attempted + 1
          /\ rhist'.check # "skipped"
          /\ rhist'.seen = rest_requests_attempted'
    /\ mpc = "login" /\ MainCalled /\ ~ResponseCounted =>
          /\ rest_requests_attempted' = rest_requests_attempted
          /\ rhist'.check = "skipped"
    /\ mpc' = "sent" /\ mpc # "sent" =>
          rest_requests_attempted' = rest_requests_attempted
    /\ mpc = "sent" /\ mpc' # "sent" =>
          /\ ResponseCounted <=> mpc' = "counting"
          /\ mpc' = "counting" => mreq'.loaded = rest_requests_attempted
          /\ rest_requests_attempted' = rest_requests_attempted
          /\ rhist'.check = "skipped"
    /\ mpc = "counting" /\ mpc' # "counting" =>
          /\ mpc' = "checking"
          /\ rest_requests_attempted' = mreq.loaded + 1
          /\ rhist'.check = "skipped"
    /\ mpc = "checking" /\ mpc' # "checking" =>
          /\ rest_requests_attempted' = rest_requests_attempted
          /\ rest_requests_attempted >= 1
          /\ rhist'.check # "skipped"
          /\ rhist'.seen = rest_requests_attempted
    /\ \A i \in DOMAIN timers :
          /\ timers[i] = "firing" /\ timers'[i] = "counting" =>
                /\ ResponseCounted
                /\ rest_requests_attempted' = rest_requests_attempted
          /\ timers[i] = "firing" /\ timers'[i] = "finally" =>
                /\ ~ResponseCounted
                /\ rest_requests_attempted' = rest_requests_attempted
          /\ timers[i] = "counting" /\ timers'[i] = "checking" =>
                rest_requests_attempted' = tlogin[i].loaded + 1
          /\ timers[i] = "checking" /\ timers'[i] = "finally" =>
                /\ rest_requests_attempted' = rest_requests_attempted
                /\ rest_requests_attempted >= 1
    /\ rest_requests_attempted <= rhist.counted
    /\ rest_requests_attempted' <= rhist'.counted

\* C15 (amended): a response without error status that carries a
\* Sforce-Limit-Info header makes _make_request execute
\* rest_requests_attempted += 1 before the governor check, on the main
\* thread and on a timer thread; no other outcome of a call changes the
\* counter; the check reads the counter as the threads have left it.
C15_Amended == [][CountedBeforeCheck]_vars

\* C15 witness: three responses were counted, two of the main thread and
\* one of a timer thread whose store came between the store and the check
\* of the main thread's last call: that check read 1 and passed.
C15_Witness ==
    /\ mpc = "run"
    /\ rhist.calls = 3
    /\ rhist.counted = 3
    /\ rest_requests_attempted = 1
    /\ rhist.check = "none"
    /\ rhist.seen = 1
    /\ \E i \in DOMAIN timers : timers[i] = "checking"

\* C16 (as claimed): a run ended by the quota governor exits with the
\* dedicated quota exit code 2.
C16_QuotaExitCode ==
    (rpc = "exit" /\ rhist.tripped /\ call.ctx = "sync") => exit_code = 2

\* C17: _make_request retries only ConnectionError and Timeout, one call
\* makes at most max_tries attempts, a connection or timeout error leaves
\* the call only after the last attempt, and the call goes on to another
\* attempt only after a connection or timeout error: an HTTP error status,
\* the quota condition and an unsupported method leave it at the attempt
\* that raised them.
C17_RetryOnlyTransient ==
    /\ rhist.retried \subseteq {"ConnectionError", "Timeout"}
    /\ call.tries <= max_tries
    /\ rpc = "request" => call.tries < max_tries
    /\ (rpc = "raise" /\ exc.class \in {"ConnectionError", "Timeout"}) =>
          call.tries = max_tries
    /\ (rpc = "request" /\ call.tries > 0) =>
          /\ rhist.last.kind = "error"
          /\ rhist.last.class \in {"ConnectionError", "Timeout"}
          /\ rhist.check = "skipped"

\* C17 witness: a connection error propagates after the tenth attempt.
C17_Witness ==
    /\ rpc = "raise"
    /\ exc.class = "ConnectionError"
    /\ call.tries = max_tries
    /\ "ConnectionError" \in rhist.retried

\* The points of a run where the next step emits a record or makes a remote
\* call: before job_exists, before a batch's results are fetched, inside a
\* batch, before the query of sync_records and inside its loop.
BeforeRecordOrCall == pc \in {"resume", "batch", "drain", "sync", "records"}

\* The state st without the version and the presence of stream s's bookmark.
ExceptVersion(st, s) ==
    [st EXCEPT !.bookmarks[s] = [@ EXCEPT !.entry = TRUE, !.version = Absent]]

\* C18 (as claimed): before every record and every remote call the last
\* State message written equals the in-memory state.
C18_Original == BeforeRecordOrCall => persisted = state

\* C18 (amended): before every record and every remote call the last State
\* message written equals the in-memory state in current_stream and in
\* every bookmark value except the current stream's version: on the resume
\* path they are equal, and on the fresh path they differ at most by the
\* version do_sync has written before sync_stream.
C18_Amended ==
    /\ pc \in {"resume", "batch", "drain"} => persisted = state
    /\ pc \in {"sync", "records"} =>
          /\ ExceptVersion(persisted, idx) = ExceptVersion(state, idx)
          /\ persisted # state =>
                /\ ActivatesAtStart(idx, persisted)
                /\ state.bookmarks[idx].version = stream_version

\* C18 witness: sync_records has written a record's replication-key value
\* as the bookmark, and the State message written holds it.
C18_Witness ==
    /\ pc = "records"
    /\ nrecs >= 1
    /\ hist.bookmarked # Null
    /\ get_bookmark(state, idx, "rk") = hist.bookmarked
    /\ persisted = state

\* do_sync of this run has started syncing stream s: the stream is
\* selected, is not skipped for the stream the run resumes from, and the
\* loop has passed or is inside its catalog entry.
SyncStarted(s) ==
    LET first == Get(build_state(hist.raw0).current_stream)
    IN  /\ pc # "start"
        /\ stream_is_selected(s)
        /\ Truthy(first) => s >= first
        /\ \/ s < idx
           \/ s = idx /\ pc \notin {"loop", "done"}

\* C19: the messages of one run hold exactly one Schema message for each
\* stream whose sync has started and none for any other stream, and every
\* Record and ActivateVersion message of a stream comes after the stream's
\* Schema message.
C19_SchemaOnceFirst ==
    \A s \in Streams :
        /\ Cardinality(Msgs("SCHEMA", s)) = IF SyncStarted(s) THEN 1 ELSE 0
        /\ \A i \in Msgs("RECORD", s) \cup Msgs("ACTIVATE_VERSION", s) :
              \E j \in Msgs("SCHEMA", s) : j < i

\* C19 witness: a run has synced two streams, each with its Schema message
\* and records, one of them with an ActivateVersion message.
C19_Witness ==
    /\ pc = "done"
    /\ Len(catalog) = 2
    /\ \A s \in Streams : Msgs("SCHEMA", s) # {} /\ Msgs("RECORD", s) # {}
    /\ \E s \in Streams : Msgs("ACTIVATE_VERSION", s) # {}

\* The place of batch id b in the list ids.
BatchPosition(ids, b) == CHOOSE k \in DOMAIN ids : ids[k] = b

\* The positions of out holding a record of a resumed batch.
BatchRecords == {i \in DOMAIN out : out[i].type = "RECORD" /\ out[i].batch # 0}

\* C20: the messages of a run are in catalog order of their streams, and
\* the records of a resumed job belong to the batches of the persisted
\* BatchIDs and are in the order of that list, batch by batch.
C20_Sequential ==
    /\ \A i, j \in DOMAIN out : i < j => out[i].stream <= out[j].stream
    /\ \A i \in BatchRecords :
          /\ out[i].stream = hist.resume.s
          /\ \E k \in DOMAIN hist.resume.ids : hist.resume.ids[k] = out[i].batch
    /\ \A i, j \in BatchRecords :
          i < j => BatchPosition(hist.resume.ids, out[i].batch)
                     <= BatchPosition(hist.resume.ids, out[j].batch)

\* C20 witness: a job resumed with BatchIDs 2, 1 gave records of batch 2
\* and then of batch 1, and messages of the next stream follow them.
C20_Witness ==
    /\ hist.resume.ids = <<2, 1>>
    /\ \E i, j, k \in DOMAIN out :
          /\ i < j /\ j < k
          /\ out[i].type = "RECORD" /\ out[i].batch = 2
          /\ out[j].type = "RECORD" /\ out[j].batch = 1
          /\ out[k].stream = 2

\* The bookmark b holds the key JobID exactly when it holds the key BatchIDs.
JobKeysPaired(b) == (b.JobID # Absent) <=> (b.BatchIDs # AbsentIDs)
\* The job keys of b, when present, hold a job id and a list of batch ids.
JobKeysUsable(b) ==
    /\ b.JobID # Absent => Truthy(b.JobID)
    /\ b.BatchIDs # AbsentIDs => b.BatchIDs # NullIDs
\* The State message last written was written by this run.
FlushedByRun == persisted # hist.raw0

C22_UnknownKeysKept ==
    FlushedByRun =>
        /\ persisted.other = hist.raw0.other
        /\ \A s \in Streams :
              persisted.bookmarks[s].other = hist.raw0.bookmarks[s].other

\* C23 (as claimed): build_state gives back the persisted state it is given,
\* and applied to its own result gives that result.
C23_RoundTrip ==
    /\ build_state(persisted) = persisted
    /\ build_state(build_state(persisted)) = build_state(persisted)

\* C24 (as claimed): once main_impl's cleanup has run, no token-refresh
\* timer is pending, whatever a timer thread was doing meanwhile.
C24_TimerCancelled ==
    mpc = "exited" => \A i \in DOMAIN timers : timers[i] # "pending"

\* sync_stream has handled the RequestException arg.
Handled == fn = "sync_stream" /\ ret # <<>>
\* The JSON object sync_stream reads the error from: the body, or the first
\* item of the body; JsonScalar when there is none.
ErrorObject(body) ==
    IF body.kind = "object" THEN body
    ELSE IF body.kind = "list" /\ body.items # <<>> /\ body.items[1].kind = "object"
    THEN body.items[1]
    ELSE JsonScalar

\* C25: for a RequestException with a response sync_stream raises the
\* SymonException with code salesforce.SalesforceApiError when the body
\* gives an error code and a message (a non-empty text under exceptionCode
\* or errorCode and one under exceptionMessage or message), and only when
\* each pair of keys holds a value that is not null; in every other case
\* it raises a plain Exception; a RequestException without response is
\* re-raised as it is.
C25_ApiErrorClassified ==
    Handled =>
        LET r == ret[1]
            o == ErrorObject(arg.response)
        IN  /\ arg.response = NoResponse <=> r.reraised
            /\ arg.response # NoResponse => r.class \in {"SymonException", "Exception"}
            /\ r.class = "SymonException" =>
                  /\ r.code = "salesforce.SalesforceApiError"
                  /\ o.kind = "object"
                  /\ Get(o.exceptionCode) # Null \/ Get(o.errorCode) # Null
                  /\ Get(o.exceptionMessage) # Null \/ Get(o.message) # Null
            /\ ( /\ arg.response # NoResponse
                 /\ o.kind = "object"
                 /\ SomeText \in {o.exceptionCode, o.errorCode}
                 /\ SomeText \in {o.exceptionMessage, o.message} )
                  => r.class = "SymonException"

\* C25 witness: a body that is a list whose first item gives errorCode and
\* message was classified.
C25_Witness ==
    /\ Handled
    /\ arg.response = JsonList(<<JsonObject(Absent, SomeText, Absent, SomeText)>>)
    /\ ret[1].class = "SymonException"

\* The binary field types.
Binary == {"base64", "byte"}
\* The types of field list fs.
TypesOf(fs) == {fs[i].type : i \in DOMAIN fs}
\* field_to_property_schema, or do_discover_object, has been called.
SchemaMade == fn = "field_to_property_schema" /\ ret # <<>>
Discovered == fn = "do_discover_object" /\ ret # <<>>

\* do_discover_object got the description of the object and read its
\* fields: nothing before its loop raised.
FieldsRead ==
    /\ Discovered
    /\ ret[1].exc = "none" \/ ret[1].why \in {"unsupported type", "no Id field"}
\* The field list fs has an Id.
HasId(fs) == \E i \in DOMAIN fs : fs[i].name = "Id"

\* C26 (as claimed): a field whose type has no schema mapping or is not
\* supported raises nothing: it is recorded with inclusion unsupported,
\* and discovery gives a result for every field list with an Id.
C26_Original ==
    /\ SchemaMade /\ arg.field.type \notin MappedTypes \cup LOOSE_TYPES =>
          ret[1].exc = "none" /\ ret[1].inclusion = "unsupported"
    /\ FieldsRead /\ HasId(arg.fields) => ret[1].exc = "none"

\* C26 (amended): a field of a binary type (base64, byte) raises nothing
\* and is recorded with inclusion unsupported, and discovery goes on with
\* the remaining fields; a field whose type has no mapping raises
\* TapSalesforceException, which ends discovery without result.
C26_Amended ==
    /\ SchemaMade =>
          LET ty == arg.field.type
              r == ret[1]
          IN  /\ ty \in Binary =>
                    r.exc = "none" /\ r.inclusion = "unsupported" /\ r.schema = NoSchema
              /\ ty \in MappedTypes \cup LOOSE_TYPES =>
                    r.exc = "none" /\ r.inclusion # "unsupported"
              /\ ty \notin MappedTypes \cup LOOSE_TYPES \cup Binary =>
                    r.exc = "TapSalesforceException"
    /\ FieldsRead =>
          LET fs == arg.fields
              r == ret[1]
          IN  IF TypesOf(fs) \subseteq MappedTypes \cup LOOSE_TYPES \cup Binary
              THEN /\ r.exc = "none" <=> HasId(fs)
                   /\ r.exc # "none" => r.exc = "Exception" /\ r.why = "no Id field"
                   /\ r.exc = "none" =>
                         \A i \in DOMAIN fs :
                            /\ fs[i].type \in Binary =>
                                  /\ fs[i].name \in r.properties
                                  /\ r.inclusion[fs[i].name] = "unsupported"
                            /\ fs[i].type \in {"string", "id", "anyType"}
                                  /\ fs[i].name \in {"Id", "A", "B"} =>
                                  /\ fs[i].name \in r.properties
                                  /\ r.inclusion[fs[i].name]
                                        = IF fs[i].name = "Id" THEN "automatic"
                                          ELSE "available"
              ELSE r.exc = "TapSalesforceException" /\ r.properties = {}

\* C26 witness: discovery of an object with a binary field followed by a
\* string field recorded the first as unsupported and kept the second.
C26_Witness ==
    /\ Discovered
    /\ arg.fields = <<Field("Id", "id"), Field("A", "base64"), Field("B", "string")>>
    /\ ret[1].exc = "none"
    /\ ret[1].inclusion["A"] = "unsupported"
    /\ ret[1].inclusion["B"] = "available"
    /\ ret[1].properties = {"Id", "A", "B"}

\* filter_sql, or _build_query_string, has been called.
Compiled == fn = "filter_sql" /\ ret # <<>>
QueryBuilt == fn = "_build_query_string" /\ ret # <<>>
\* The compiled children of a group that are not None, in their order.
Survivors(filters) ==
    SelectSeq([i \in DOMAIN filters |-> filter_sql(filters[i]).value],
              LAMBDA v : v # None)
\* The filter tree f holds a statement whose operator is not in the table.
RECURSIVE HasUnknownOp(_)
HasUnknownOp(f) ==
    IF f.filterType = "statement" THEN f.op \notin DOMAIN ops
    ELSE \E i \in DOMAIN f.filters : HasUnknownOp(f.filters[i])

\* C27 (as claimed): a group compiles to its surviving children joined
\* with its operator inside parentheses, and to nothing when no child
\* survives; _build_query_string still produces a query when the whole
\* filter tree compiles to nothing.
C27_GroupCompiles ==
    /\ (Compiled /\ arg.filterType = "group" /\ ~HasUnknownOp(arg)) =>
          /\ ret[1].exc = "none"
          /\ ret[1].value =
                IF Survivors(arg.filters) = <<>> THEN None
                ELSE Text("(" \o Join(Texts(Survivors(arg.filters)),
                                      " " \o arg.op \o " ") \o ")")
    /\ (QueryBuilt /\ arg.filters # <<>> /\ ~HasUnknownOp(arg.filters[1])) =>
          ret[1].exc = "none" /\ ret[1].value # None

\* C28: the query _build_query_string produces is the SELECT, then, when
\* there is any clause, WHERE and the clauses that apply joined with AND
\* in the order soft-delete exclusion, compiled filter, lower bound of the
\* replication key, upper bound, then ORDER BY on the replication key when
\* there is one and ordering was asked for.
C28_WhereOrder ==
    (QueryBuilt /\ ret[1].exc = "none") =>
        LET a == arg
            rk == a.replication_key
            soft == IF \E i \in DOMAIN a.selected_properties :
                           a.selected_properties[i] = "IsDeleted"
                    THEN <<"IsDeleted = false">> ELSE <<>>
            filt == IF a.filters # <<>> THEN filter_sql(a.filters[1]).value ELSE <<>>
            lower == IF rk # None
                     THEN <<rk[1] \o " >= " \o a.start_date \o " ">> ELSE <<>>
            upper == IF rk # None /\ a.end_date # None
                     THEN <<rk[1] \o " < " \o a.end_date[1]>> ELSE <<>>
            all == soft \o filt \o lower \o upper
        IN  ret[1].value =
              Text("SELECT " \o Join(a.selected_properties, ",") \o " FROM " \o a.stream
                   \o (IF all = <<>> THEN "" ELSE " WHERE " \o Join(all, " AND "))
                   \o (IF rk # None /\ a.order_by_clause
                       THEN " ORDER BY " \o rk[1] \o " ASC" ELSE ""))

\* C28 witness: the query of a stream with IsDeleted selected, a filter
\* statement, a replication key, an end date and ordering.
C28_Witness ==
    /\ QueryBuilt
    /\ arg.filters = <<S_eq>>
    /\ ret[1] = Returned(Text(
          "SELECT Id,IsDeleted FROM Account WHERE IsDeleted = false AND (A = 'x')"
          \o " AND SystemModstamp >= 2020-01-01T00:00:00Z "
          \o " AND SystemModstamp < 2021-01-01T00:00:00Z"
          \o " ORDER BY SystemModstamp ASC"))

\* C29 (as claimed): compiling a statement whose operator is not in the
\* operator table raises the dedicated unknown-operator error, and no
\* query is produced.
C29_UnknownOperator ==
    /\ (Compiled /\ HasUnknownOp(arg)) =>
          ret[1].exc = "UnknownOperatorError" /\ ret[1].value = None
    /\ (QueryBuilt /\ arg.filters # <<>> /\ HasUnknownOp(arg.filters[1])) =>
          ret[1].exc = "UnknownOperatorError" /\ ret[1].value = None

\* fix_record_anytype has been called on a field without type.
AnytypeFixed == fn = "fix_record_anytype" /\ ret # <<>> /\ arg.typ = <<>>

\* C30 (as claimed): the value of an untyped field comes out as the int it
\* parses as, else as the float it parses as, else as the bool it names,
\* else as None when it is empty, else unchanged.
C30_IntBeforeFloat ==
    AnytypeFixed =>
        ret[1] =
            IF int_parse(arg.v.v) # <<>> THEN int_parse(arg.v.v)[1]
            ELSE IF float_parse(arg.v.v) # <<>> THEN float_parse(arg.v.v)[1]
            ELSE IF arg.v.v \in {"true", "false"} THEN BoolValue(arg.v.v = "true")
            ELSE IF arg.v.v = "" THEN NoneValue
            ELSE arg.v

\* transform_bulk_data_hook has been called on a text of a field.
HookDone == fn = "transform_bulk_data_hook" /\ ret # <<>> /\ arg.data.t = "str"
\* fix_record_anytype has been called on a field whose schema type includes
\* "integer" or "null", or whose format is date-time.
FieldFixed ==
    /\ fn = "fix_record_anytype" /\ ret # <<>>
    /\ \/ TypeNames(arg.typ) \cap {"integer", "null"} # {}
       \/ arg.format = "date-time"
\* What the hook is claimed to make of the text of a field.
Hooked ==
    IF arg.data.v = "0.0" /\ "integer" \in TypeNames(arg.typ) THEN StrValue("0")
    ELSE IF arg.data.v = "" /\ "null" \in TypeNames(arg.typ) THEN NoneValue
    ELSE arg.data
\* The "<null>" sentinel of a date-time field becomes the empty string.
Sentinel ==
    IF arg.format = "date-time" /\ arg.v.t = "str"
       /\ arg.v.v \in {"<null>", "<NULL>", "<Null>"}
    THEN StrValue("") ELSE arg.v

\* C31 (as claimed): the hook maps "0.0" of an integer field to "0" and ""
\* of a nullable field to null, fix_record_anytype maps the "<null>"
\* sentinel of a date-time field to "", and every other value of those
\* fields is left unchanged.
C31_Original ==
    /\ HookDone => ret[1] = Hooked
    /\ FieldFixed => ret[1] = Sentinel

\* C31 (amended): as claimed, except that fix_record_anytype also maps the
\* "-" of a field whose type includes "number" to "" (and leaves the
\* sentinel of such a field alone).
C31_Amended ==
    /\ HookDone => ret[1] = Hooked
    /\ FieldFixed =>
           ret[1] = IF "number" \in TypeNames(arg.typ)
                    THEN (IF arg.v = StrValue("-") THEN StrValue("") ELSE arg.v)
                    ELSE Sentinel

C31_Witness ==
    /\ FieldFixed
    /\ arg.v = StrValue("-")
    /\ arg.typ = <<"null", "number">>
    /\ ret[1] = StrValue("")

\* The batch ids the last State message lists for the stream in progress.
FlushedIds == get_bookmark_ids(persisted, idx)
\* The records of the batch being drained that have been written.
DrainedRecords == {i \in BatchRecords : out[i].stream = idx /\ out[i].batch = cur_batch}
\* The last batch the loop of resume_syncing_bulk_query took.
LastDrained == hist.resume.drained[Len(hist.resume.drained)]

\* A State message of resume_syncing_bulk_query drops a batch id.
IdDropped == pc \in {"batch", "drain"} /\ Ids(get_bookmark_ids(persisted', idx)) # Ids(FlushedIds)
\* The message comes after the batch being drained and holds its bookmark.
DroppedAfterDrain ==
    /\ pc = "drain"
    /\ Ids(FlushedIds) \ Ids(get_bookmark_ids(persisted', idx)) = {cur_batch}
    /\ get_bookmark(persisted', idx, "JobHighestBookmarkSeen") = strftime(current_bookmark)
    /\ persisted' = state'
\* The run that follows an interrupted drain starts with the batch listed first.
RedrainedNext ==
    /\ hist'.raw0 = persisted
    /\ Head(get_bookmark_ids(hist'.raw0, idx)) = cur_batch

\* C32: in resume_syncing_bulk_query a State message drops a batch id from
\* BatchIDs only when the iterator of that batch is exhausted and every
\* record it yielded has been written, and that message holds the
\* JobHighestBookmarkSeen computed up to the end of the batch; while a batch
\* is being drained its id heads the last flushed BatchIDs, also when the
\* run is interrupted there, so the next run starts with it.
C32_RemovedAfterDrain ==
    /\ [](pc = "drain" =>
            /\ FlushedIds # NullIDs
            /\ Head(FlushedIds) = cur_batch
            /\ Cardinality(DrainedRecords) = nrecs)
    /\ [](pc = "batch" /\ hist.resume.drained # <<>> =>
            /\ LastDrained \notin Ids(FlushedIds)
            /\ <<idx, LastDrained>> \in hist.removed
            /\ get_bookmark(persisted, idx, "JobHighestBookmarkSeen")
                   = strftime(current_bookmark))
    /\ [][IdDropped => DroppedAfterDrain]_vars
    /\ [][pc = "drain" /\ run' # run => RedrainedNext]_vars

\* C32 witness: batch 2 was drained with records, one of which advanced the
\* bookmark, and the State message that dropped it left batch 1 listed.
C32_Witness ==
    /\ pc = "batch"
    /\ hist.resume.drained = <<2>>
    /\ \E i \in BatchRecords : out[i].batch = 2
    /\ hist.resume.qualified
    /\ FlushedIds = <<1>>
    /\ get_bookmark(persisted, idx, "JobHighestBookmarkSeen") = strftime(current_bookmark)

\* The Record messages of stream s carry one version.
OneVersion(s) ==
    \A i, j \in Msgs("RECORD", s) : out[i].version = out[j].version
\* The activate-version messages of stream s written before record r.
ActivatedBefore(s, r) == {a \in Msgs("ACTIVATE_VERSION", s) : a < r}

\* C33 (as claimed): the records of a stream carry one version, the version
\* of the activate-version message written before them.
C33_Original ==
    \A s \in Streams :
        /\ OneVersion(s)
        /\ \A r \in Msgs("RECORD", s) :
              \A a \in ActivatedBefore(s, r) : out[a].version = out[r].version

\* C33 (amended): the records of a stream carry one version.  For a stream
\* with a replication key it is the version of the activate-version message
\* written before them; for a stream without one it is the version
\* sync_records minted, not older than that of the message written before
\* the records and equal to that of the message written after them.
C33_Amended ==
    \A s \in Streams :
        /\ OneVersion(s)
        /\ \A r \in Msgs("RECORD", s) :
              /\ \A a \in ActivatedBefore(s, r) :
                    IF replication_key(s)
                    THEN out[a].version = out[r].version
                    ELSE out[a].version <= out[r].version
              /\ \A a \in Msgs("ACTIVATE_VERSION", s) \ ActivatedBefore(s, r) :
                    ~replication_key(s) /\ out[a].version = out[r].version

\* C33 witness: two records of a stream with a replication key carry the
\* version of the activate-version message written before them.
C33_Witness ==
    \E s \in Streams :
        /\ replication_key(s)
        /\ Cardinality(Msgs("RECORD", s)) >= 2
        /\ \E a \in Msgs("ACTIVATE_VERSION", s) :
              \A r \in Msgs("RECORD", s) : a < r /\ out[a].version = out[r].version

\* sync_records flushes a record's value as bookmark after an earlier one.
NextBookmark ==
    /\ pc = "records" /\ pc' = "records" /\ ~pk_chunking
    /\ hist.bookmarked # Null
    /\ persisted'.bookmarks[idx].rk # persisted.bookmarks[idx].rk

\* C34 (as claimed): without pk_chunking the replication-key bookmarks that
\* sync_records flushes for a stream never decrease, whatever the order of
\* the records.
C34_BookmarksNonDecreasing ==
    [][NextBookmark =>
          strptime_with_tz(persisted'.bookmarks[idx].rk)
              >= strptime_with_tz(persisted.bookmarks[idx].rk)]_vars

\* The selected streams whose bookmark, in the state the run was started
\* with, holds a JobID, an empty BatchIDs and a JobHighestBookmarkSeen: the
\* state an interrupt leaves between the last batch and the reconcile.
DrainedUnreconciled ==
    {s \in Streams :
        /\ stream_is_selected(s)
        /\ Truthy(get_bookmark(hist.raw0, s, "JobID"))
        /\ hist.raw0.bookmarks[s].BatchIDs = <<>>
        /\ Truthy(get_bookmark(hist.raw0, s, "JobHighestBookmarkSeen"))}

\* C35 (as claimed): the run started from such a state ends with the
\* persisted JobHighestBookmarkSeen as the replication-key bookmark and
\* without the job keys, and does not extract the stream again.
C35_PromotedNextRun ==
    pc = "done" =>
        \A s \in DrainedUnreconciled :
            /\ persisted.bookmarks[s].rk = hist.raw0.bookmarks[s].JobHighestBookmarkSeen
            /\ JobKeysGone(s)
            /\ persisted.bookmarks[s].JobHighestBookmarkSeen = Absent
            /\ s \notin hist.fresh
            /\ Msgs("RECORD", s) = {}

\* sync_stream's handler has dealt with a SymonException of the extraction.
SymonHandled ==
    /\ fn = "sync_stream: except Exception" /\ ret # <<>>
    /\ arg.ex.class = "SymonException"

\* C36 (as claimed): a SymonException raised during extraction leaves
\* sync_stream as a SymonException with the same code and message.
C36_SymonExceptionKept ==
    SymonHandled =>
        /\ ret[1].class = "SymonException"
        /\ ret[1].code = arg.ex.code
        /\ ret[1].text = arg.ex.message.text

\* do_sync was entered with a current_stream marker that names no selected
\* stream of the catalog (the first run of DoSyncSpec enters do_sync with
\* hist.raw0).
MarkerUnmatched ==
    /\ run = 1
    /\ Truthy(Get(hist.raw0.current_stream))
    /\ \A s \in Streams : stream_is_selected(s) => hist.raw0.current_stream # s

\* C37: do_sync entered with a current_stream marker that names no selected
\* stream writes no Schema, Record or ActivateVersion message, leaves every
\* bookmark as it was, in memory and in what it flushes, and ends by
\* flushing a state whose current_stream is null.
C37_UnmatchedMarkerSkipsAll ==
    MarkerUnmatched =>
        /\ out = <<>>
        /\ pc \in {"loop", "done"}
        /\ state.bookmarks = hist.raw0.bookmarks
        /\ persisted.bookmarks = hist.raw0.bookmarks
        /\ pc = "done" => state.current_stream = Null /\ persisted = state

\* C37 witness: do_sync ended after skipping a selected stream because of a
\* marker that names an unselected stream or no stream.
C37_Witness ==
    /\ MarkerUnmatched
    /\ pc = "done"
    /\ \E s \in Streams : stream_is_selected(s)
    /\ persisted.current_stream = Null
    /\ out = <<>>

\* The timers whose callback has gone through login's finally block.
Rescheduled == {i \in DOMAIN timers : timers[i] \in {"starting", "done"}}
\* The timers that wait, or are about to be started.
Waiting == {i \in DOMAIN timers : timers[i] \in {"created", "pending"}}

\* C38: there is one timer for the login of main_impl and one more for every
\* login a timer ran through its finally block, whether that login set the
\* token or failed; the timer of a login that has returned was started; at
\* most one timer is waiting at any time.
C38_OneTimerPerLogin ==
    /\ Len(timers) = (IF mpc = "login" THEN 0 ELSE 1) + Cardinality(Rescheduled)
    /\ mpc # "login" => timers[1] # "created"
    /\ \A i \in DOMAIN timers :
          timers[i] = "done" => i < Len(timers) /\ timers[i + 1] # "created"
    /\ Cardinality(Waiting) <= 1

\* C38 witness: the login of main_impl and the refresh of the first timer
\* both failed (no login set the token), and the second timer is pending.
C38_Witness ==
    /\ access_token = 0
    /\ Len(timers) = 2
    /\ timers[1] = "done"
    /\ timers[2] = "pending"

\* The streams without bookmark entry in the state the run was started with.
Unbookmarked == {s \in Streams : ~hist.raw0.bookmarks[s].entry}

\* C39 (as claimed): build_state makes no bookmark entry for a stream that
\* has none in the persisted state, so do_sync finds the bookmark of such a
\* stream empty when it comes to it, whatever the replication method.
C39_NoEntryCreated ==
    /\ pc = "loop" /\ idx = 1 =>
          \A s \in Unbookmarked : ~state.bookmarks[s].entry
    /\ pc = "fresh" /\ idx \in Unbookmarked => ~state.bookmarks[idx].entry

\* The greatest member of a non-empty set of instants.
Greatest(S) == CHOOSE x \in S : \A y \in S : y <= x
\* The instant of the bookmark sync_records started from: the persisted
\* bookmark, else the default start date.
StartingBookmark == strptime_with_tz(Or(hist.rkstart, default_start_date))
\* sync_records ends a query that ran with pk_chunking.
ChunkedEnd == pc = "records" /\ pc' = "loop" /\ pk_chunking
\* The bookmark written at the end is the greatest of the starting bookmark
\* and the record values not later than start_time, and the last
\* JobHighestBookmarkSeen written.
HighWaterMark ==
    /\ strptime_with_tz(state'.bookmarks[idx].rk)
          = Greatest({StartingBookmark} \cup {t \in hist.seen : t <= start_time})
    /\ state'.bookmarks[idx].rk
          = strftime(Greatest({StartingBookmark} \cup {t \in hist.seen : t <= start_time}))
    /\ hist.written # Null => state'.bookmarks[idx].rk = hist.written
    /\ persisted' = state'

\* C40: with pk_chunking the replication-key bookmark sync_records writes at
\* its end is the greatest of the bookmark it started from (the persisted
\* bookmark, else the default start date) and the replication-key values of
\* the records not later than start_time, in whatever order the records
\* came, and it is the last JobHighestBookmarkSeen written when one was.
C40_ChunkedHighWaterMark == [][ChunkedEnd => HighWaterMark]_vars

\* C40 witness: a chunked query has ended whose records carried two
\* different values, one of them later than start_time, and the bookmark is
\* the JobHighestBookmarkSeen written for the other.
C40_Witness ==
    /\ pc = "loop"
    /\ pk_chunking
    /\ idx = 2
    /\ replication_key(1)
    /\ hist.future
    /\ Cardinality(hist.seen) >= 2
    /\ hist.written # Null
    /\ state.bookmarks[1].rk = hist.written
    /\ persisted.bookmarks[1].rk = hist.written
====
